---- MODULE Spec2Model ----
(***************************************************************************)
(* Auto Tab Reloader: the background service worker (src/background.js)    *)
(* with its services (AlarmService, StorageService, TabService,            *)
(* BadgeService) over the chrome.storage.local, chrome.alarms, chrome.tabs *)
(* and chrome.action APIs.                                                 *)
(*                                                                         *)
(* Strings are sequences of one-character strings, so that getKey /        *)
(* getAlarmName (prefix + decimal tabId) and parseTabId / getAllIntervals  *)
(* (startsWith, substring, parseInt) are computed as the code computes     *)
(* them.  A JS object is a function from property names to values; the     *)
(* store is a function from keys to objects.                               *)
(*                                                                         *)
(* A handler is an async function.  It runs without interruption from one  *)
(* await to the next; a chrome API call takes effect when it is issued     *)
(* (calls of one extension reach the browser in order) and the handler     *)
(* resumes in a later step.  A task's pc names the await it is suspended   *)
(* at.                                                                     *)
(***************************************************************************)
EXTENDS Integers, Sequences, FiniteSets, TLC

\* ------------------------------------------------------------ bounds
MaxTab == 2
MaxInterval == 2
MaxBundleKeys == 1

TabIds == 1..MaxTab
PosIntervals == 1..MaxInterval

\* ------------------------------------------------------------ strings
ALARM_NAME_PREFIX ==
    <<"t","a","b","-","r","e","l","o","a","d","e","r","-","a","l","a","r","m","-">>

OPTIONS_KEY ==
    <<"t","a","b","-","r","e","l","o","a","d","e","r","-","o","p","t","i","o","n","s">>

Digits == <<"0","1","2","3","4","5","6","7","8","9">>

IsDigit(c) == \E d \in 1..10 : Digits[d] = c

DigitVal(c) == (CHOOSE d \in 1..10 : Digits[d] = c) - 1

\* String(n) for an integer n: the decimal rendering.
RECURSIVE NatToString(_)
NatToString(n) ==
    IF n < 10 THEN <<Digits[n + 1]>>
    ELSE NatToString(n \div 10) \o <<Digits[(n % 10) + 1]>>

StringOf(n) == IF n < 0 THEN <<"-">> \o NatToString(-n) ELSE NatToString(n)

StartsWith(s, p) == Len(s) >= Len(p) /\ SubSeq(s, 1, Len(p)) = p

Substring(s, from) == SubSeq(s, from + 1, Len(s))

\* parseInt(s, 10): leading white space is skipped, one sign is accepted, then
\* the longest run of digits is read; no digit at all gives NaN.
NaN == [nan |-> TRUE, val |-> 0]

Num(n) == [nan |-> FALSE, val |-> n]

RECURSIVE SkipSpace(_)
SkipSpace(s) == IF s # <<>> /\ Head(s) = " " THEN SkipSpace(Tail(s)) ELSE s

RECURSIVE ReadDigits(_, _)
ReadDigits(s, acc) ==
    IF s # <<>> /\ IsDigit(Head(s))
    THEN ReadDigits(Tail(s), 10 * acc + DigitVal(Head(s)))
    ELSE acc

ParseInt(str) ==
    LET s == SkipSpace(str)
        neg == s # <<>> /\ Head(s) = "-"
        body == IF s # <<>> /\ Head(s) \in {"-", "+"} THEN Tail(s) ELSE s
    IN  IF body = <<>> \/ ~IsDigit(Head(body)) THEN NaN
        ELSE Num(IF neg THEN -ReadDigits(body, 0) ELSE ReadDigits(body, 0))

\* ------------------------------------------------------------ JS objects
EmptyObject == [p \in {} |-> 0]

Has(obj, p) == p \in DOMAIN obj

\* { ...a, ...b }
Spread(a, b) ==
    [p \in DOMAIN a \cup DOMAIN b |-> IF p \in DOMAIN b THEN b[p] ELSE a[p]]

DEFAULT_OPTIONS == [defaultInterval |-> 5, bypassCache |-> TRUE, showBadge |-> TRUE]

\* ------------------------------------------------------------ chrome.storage.local
\* The store is an object: key -> value.
EmptyStore == [k \in {} |-> EmptyObject]

\* get(key): the object holding the key if it is stored, {} otherwise.
StorageGet(st, key) == [k \in DOMAIN st \cap {key} |-> st[k]]

\* get(null): a copy of the whole store.
StorageGetAll(st) == st

\* set(items): Object.assign(store, items).
StorageSet(st, items) == Spread(st, items)

\* remove(key)
StorageRemove(st, key) == [k \in DOMAIN st \ {key} |-> st[k]]

\* importAll without its clear: the old keys stay.
StorageClear_kept(st) == st

\* clear()
StorageClear(st) == EmptyStore

\* ------------------------------------------------------------ chrome.alarms
Alarm(name, info) ==
    [name |-> name,
     delayInMinutes |-> info.delayInMinutes,
     periodInMinutes |-> info.periodInMinutes]

\* A registry that keeps the alarm of the same name beside the new one.
AlarmsCreate_added(al, name, info) == al \cup {Alarm(name, info)}

\* create(name, info): an alarm of the same name is replaced.
AlarmsCreate(al, name, info) == {a \in al : a.name # name} \cup {Alarm(name, info)}

\* A clear that cancels every alarm.
AlarmsClear_all(al, name) == {}

\* A clear that cancels nothing.
AlarmsClear_nothing(al, name) == al

\* clear(name)
AlarmsClear(al, name) == {a \in al : a.name # name}

\* getAll()
AlarmsGetAll(al) == al

\* ------------------------------------------------------------ StorageService
getKey(tabId) == ALARM_NAME_PREFIX \o StringOf(tabId)

saveInterval(st, tabId, intervalMinutes) ==
    StorageSet(st, [k \in {getKey(tabId)} |-> [interval |-> intervalMinutes]])

\* getInterval falling back to the default interval of the options.
getInterval_default(st, tabId) ==
    LET key == getKey(tabId)
        result == StorageGet(st, key)
    IN  IF key \in DOMAIN result /\ Has(result[key], "interval")
        THEN result[key].interval
        ELSE DEFAULT_OPTIONS.defaultInterval

\* result[key]?.interval ?? 0
getInterval(st, tabId) ==
    LET key == getKey(tabId)
        result == StorageGet(st, key)
    IN  IF key \in DOMAIN result /\ Has(result[key], "interval")
        THEN result[key].interval
        ELSE 0

\* A remove that writes interval 0 instead of deleting the key.
removeInterval_zeroed(st, tabId) ==
    StorageSet(st, [k \in {getKey(tabId)} |-> [interval |-> 0]])

\* A remove that leaves the entry in place.
removeInterval_kept(st, tabId) == st

removeInterval(st, tabId) == StorageRemove(st, getKey(tabId))

\* getAllIntervals without its interval > 0 filter.
getAllIntervals_unfiltered(allData) ==
    LET parsed(key) == ParseInt(Substring(key, Len(ALARM_NAME_PREFIX)))
        listed == {key \in DOMAIN allData :
                      /\ StartsWith(key, ALARM_NAME_PREFIX)
                      /\ ~parsed(key).nan
                      /\ Has(allData[key], "interval")}
    IN  [key \in listed |->
            [tabId |-> parsed(key).val, interval |-> allData[key].interval]]

\* getAllIntervals with value?.interval >= 0 for its test.
getAllIntervals_nonnegative(allData) ==
    LET parsed(key) == ParseInt(Substring(key, Len(ALARM_NAME_PREFIX)))
        listed == {key \in DOMAIN allData :
                      /\ StartsWith(key, ALARM_NAME_PREFIX)
                      /\ ~parsed(key).nan
                      /\ Has(allData[key], "interval")
                      /\ allData[key].interval >= 0}
    IN  [key \in listed |->
            [tabId |-> parsed(key).val, interval |-> allData[key].interval]]

\* The array getAllIntervals returns, as a function from the key an element
\* comes from to the element {tabId, interval}: Object.entries gives the keys
\* in an order the store chooses, so the elements are taken in any order.
getAllIntervals(allData) ==
    LET parsed(key) == ParseInt(Substring(key, Len(ALARM_NAME_PREFIX)))
        listed == {key \in DOMAIN allData :
                      /\ StartsWith(key, ALARM_NAME_PREFIX)
                      /\ ~parsed(key).nan
                      /\ Has(allData[key], "interval")
                      /\ allData[key].interval > 0}
    IN  [key \in listed |->
            [tabId |-> parsed(key).val, interval |-> allData[key].interval]]

\* The stored record as it is, without the defaults.
getOptions_stored(st) ==
    IF OPTIONS_KEY \in DOMAIN st THEN st[OPTIONS_KEY] ELSE EmptyObject

\* { ...DEFAULT_OPTIONS, ...(result[OPTIONS_KEY] ?? {}) }
getOptions(st) ==
    LET result == StorageGet(st, OPTIONS_KEY)
    IN  Spread(DEFAULT_OPTIONS,
               IF OPTIONS_KEY \in DOMAIN result THEN result[OPTIONS_KEY] ELSE EmptyObject)

\* An export of the schedule entries alone.
exportAll_schedules(st) ==
    [k \in {key \in DOMAIN st : StartsWith(key, ALARM_NAME_PREFIX)} |-> st[k]]

exportAll(st) == StorageGetAll(st)

\* ------------------------------------------------------------ AlarmService
getAlarmName(tabId) == ALARM_NAME_PREFIX \o StringOf(tabId)

\* A parse that reads tab id 0 from a name it cannot read.
parseTabId_zero(alarmName) ==
    IF ~StartsWith(alarmName, ALARM_NAME_PREFIX) THEN Num(0)
    ELSE LET n == ParseInt(Substring(alarmName, Len(ALARM_NAME_PREFIX)))
         IN  IF n.nan THEN Num(0) ELSE n

parseTabId(alarmName) ==
    IF ~StartsWith(alarmName, ALARM_NAME_PREFIX) THEN NaN
    ELSE ParseInt(Substring(alarmName, Len(ALARM_NAME_PREFIX)))

\* A schedule that arms a timer whatever the interval.
scheduleCreate_always(al, tabId, intervalMinutes) ==
    AlarmsCreate(al, getAlarmName(tabId),
                 [delayInMinutes |-> intervalMinutes,
                  periodInMinutes |-> intervalMinutes])

\* A schedule whose timer has the delay but no period: it fires once.
scheduleCreate_oneshot(al, tabId, intervalMinutes) ==
    IF intervalMinutes > 0
    THEN AlarmsCreate(al, getAlarmName(tabId),
                      [delayInMinutes |-> intervalMinutes,
                       periodInMinutes |-> 0])
    ELSE al

\* The second half of schedule, after the await of chrome.alarms.clear.
scheduleCreate(al, tabId, intervalMinutes) ==
    IF intervalMinutes > 0
    THEN AlarmsCreate(al, getAlarmName(tabId),
                      [delayInMinutes |-> intervalMinutes,
                       periodInMinutes |-> intervalMinutes])
    ELSE al

\* A listing of every alarm of the registry, whatever its name.
getAllReloaderAlarms_all(al) == AlarmsGetAll(al)

getAllReloaderAlarms(al) ==
    {a \in AlarmsGetAll(al) : StartsWith(a.name, ALARM_NAME_PREFIX)}

\* Promise.all(alarms.map(a => chrome.alarms.clear(a.name))): every clear is
\* issued before the await.
RECURSIVE clearEach(_, _)
clearEach(al, found) ==
    IF found = {} THEN al
    ELSE LET a == CHOOSE x \in found : TRUE
         IN  clearEach(AlarmsClear(al, a.name), found \ {a})

\* ------------------------------------------------------------ BadgeService
\* count > 0 ? String(count) : ''
badgeText(found) ==
    IF Cardinality(found) > 0 THEN StringOf(Cardinality(found)) ELSE <<>>

\* ------------------------------------------------------------ state
VARIABLES
    store,      \* chrome.storage.local
    alarms,     \* chrome.alarms: the set of live alarms
    tabState,   \* per tab id: "open", "closing" (closed, onRemoved not
                \* dispatched yet) or "closed" (no tab has the id)
    badge,      \* chrome.action badge text
    tasks       \* the handler running in each slot

vars == <<store, alarms, tabState, badge, tasks>>

\* Two handlers can be in flight at once; the sequential specification uses
\* the first slot only.
Slots == {"a", "b"}

SeqSlots == {"a"}

openTabs == {t \in TabIds : tabState[t] = "open"}

\* chrome.tabs.query({}) mapped to ids
getAllOpenTabIds == openTabs

NoReload == [tried |-> FALSE, tabId |-> 0, bypassCache |-> FALSE, ok |-> FALSE]

Snapshot == [store |-> store, alarms |-> alarms, badge |-> badge, open |-> openTabs]

IdleTask ==
    [kind |-> "idle", pc |-> "idle", req |-> EmptyObject,
     tabId |-> 0, interval |-> 0, data |-> EmptyObject,
     entries |-> EmptyObject, todo |-> {}, cur |-> <<>>, openIds |-> {},
     opts |-> EmptyObject, seen |-> {}, reload |-> NoReload,
     resp |-> EmptyObject,
     pre |-> [store |-> EmptyStore, alarms |-> {}, badge |-> <<>>, open |-> {}],
     again |-> FALSE, failed |-> FALSE, timers |-> EmptyObject]

\* No handler is in flight.
Quiescent == \A i \in Slots : tasks[i].pc \in {"idle", "done"}

\* Every slot is empty.
Idle == \A i \in Slots : tasks[i].pc = "idle"

\* Slot i takes the next handler.  A completed handler's record stays in its
\* slot until Forget drops it; a handler of the same kind may follow it
\* directly, which is how two requests in a row are told from two requests
\* with other handlers between them.
Free(i, kind) ==
    \/ tasks[i].pc = "idle"
    \/ tasks[i].pc = "done" /\ tasks[i].kind = kind

\* A handler entered in slot i.  pre and again are history: the state the
\* handler started in (after a restart or an update: the state the browser
\* hands over), and whether the handler that completed just before it
\* in this slot was the same request.  pre is kept for a handler that starts
\* with the other slots empty; one that starts beside another handler is
\* compared with nothing it found.
NewTask(i, kind, req) ==
    [IdleTask EXCEPT
        !.kind = kind, !.req = req,
        !.pre = IF \A j \in Slots \ {i} : tasks[j].pc = "idle"
                THEN Snapshot ELSE IdleTask.pre,
        !.again = (tasks[i].pc = "done" /\ tasks[i].kind = kind /\ tasks[i].req = req)]

Put(i, t) == tasks' = [tasks EXCEPT ![i] = t]

\* What sendResponse receives when the handler's promise resolves.
Success == [success |-> TRUE]

\* The raw exception instead of an answer.
Failure_raw(msg) == [exception |-> msg]

Failure(msg) == [success |-> FALSE, error |-> msg]

Completed(t) ==
    [t EXCEPT !.pc = "done",
              !.resp = IF t.kind \in {"setTimer", "importSettings", "saveOptions"}
                       THEN Success ELSE EmptyObject]

\* BadgeService.updateBadge up to its first await: getOptions is issued.
EnterBadge(t) == [t EXCEPT !.pc = "bg_opts", !.opts = getOptions(store)]

\* restoreAlarmsFromStorage up to its first await: getAllIntervals is issued.
EnterRestore(t) ==
    [t EXCEPT !.pc = "rs_list", !.entries = getAllIntervals(StorageGetAll(store))]

\* StorageService.saveOptions up to its first await: getOptions is issued.
EnterSaveOptions(t) == [t EXCEPT !.pc = "so_get", !.opts = getOptions(store)]

\* The service worker has been installed: onInstalled('install') is running
\* saveOptions({}).
Init ==
    /\ store = EmptyStore
    /\ alarms = {}
    /\ tabState \in [TabIds -> {"open", "closed"}]
    /\ badge = <<>>
    /\ tasks = [i \in Slots |->
                 IF i = "a"
                 THEN [IdleTask EXCEPT !.kind = "onInstalled", !.pc = "so_get",
                                       !.req = [reason |-> "install"],
                                       !.opts = getOptions(EmptyStore)]
                 ELSE IdleTask]

\* ------------------------------------------------------------ requests
RequestIntervals == 0..MaxInterval

SetTimerRequests ==
    {[action |-> "setTimer", tabId |-> t, interval |-> n] :
        t \in TabIds, n \in RequestIntervals}
    \cup {[action |-> "setTimer", interval |-> 1],
          [action |-> "setTimer", tabId |-> 0, interval |-> 1],
          [action |-> "setTimer", tabId |-> 1]}

\* A key whose suffix parseInt reads as tab 1 without being String(1).
PaddedKey == ALARM_NAME_PREFIX \o <<"0", "1">>

UnknownKey == <<"o", "l", "d", "-", "k", "e", "y">>

BundleKeys == {getKey(t) : t \in TabIds} \cup {PaddedKey, UnknownKey}

BundleValues(key) ==
    IF key = UnknownKey THEN {[data |-> "hello"]} ELSE {[interval |-> MaxInterval]}

\* The documents an import is tried with: at most MaxBundleKeys keys.
Bundles ==
    UNION {{b \in [ks -> UNION {BundleValues(k) : k \in ks}] :
               \A k \in ks : b[k] \in BundleValues(k)} :
           ks \in {x \in SUBSET BundleKeys : Cardinality(x) <= MaxBundleKeys}}

\* typeof data, and the value when it is an object.
ObjectValue(obj) == [type |-> "object", val |-> obj]

StringValue == [type |-> "string", val |-> EmptyObject]

\* An array: typeof [] is 'object', and it has no key of a document.
ArrayValue == [type |-> "object", val |-> EmptyObject, array |-> TRUE]

ArrayImportRequests == {[action |-> "importSettings", data |-> ArrayValue]}

ImportRequests ==
    {[action |-> "importSettings", data |-> ObjectValue(b)] : b \in Bundles}
    \cup {[action |-> "importSettings"],
          [action |-> "importSettings", data |-> StringValue]}

OptionsPatches ==
    {[showBadge |-> FALSE], [showBadge |-> TRUE], [bypassCache |-> FALSE],
     [defaultInterval |-> 20], [defaultInterval |-> 20, showBadge |-> FALSE],
     EmptyObject}

SaveOptionsRequests ==
    {[action |-> "saveOptions", options |-> ObjectValue(o)] : o \in OptionsPatches}
    \cup {[action |-> "saveOptions"]}

GetTimerRequests ==
    {[action |-> "getTimer", tabId |-> t] : t \in TabIds} \cup {[action |-> "getTimer"]}

\* ------------------------------------------------------------ handleSetTimer
HandleSetTimer(i, req) ==
    /\ Free(i, "setTimer")
    /\ req.action = "setTimer"
    /\ IF ~Has(req, "tabId") \/ ~Has(req, "interval")
       THEN /\ Put(i, [NewTask(i, "setTimer", req) EXCEPT
                          !.pc = "done", !.resp = Failure("Missing tabId or interval")])
            /\ UNCHANGED store
       ELSE IF req.tabId = 0
       THEN /\ Put(i, [NewTask(i, "setTimer", req) EXCEPT
                          !.pc = "done", !.resp = Failure("Missing tabId or interval")])
            /\ UNCHANGED store
       ELSE /\ store' = saveInterval(store, req.tabId, req.interval)
            /\ Put(i, [NewTask(i, "setTimer", req) EXCEPT
                          !.pc = "st_save", !.tabId = req.tabId,
                          !.interval = req.interval])
    /\ UNCHANGED <<alarms, tabState, badge>>

\* AlarmService.schedule: await chrome.alarms.clear(alarmName)
SetTimerSaved(i) ==
    /\ tasks[i].pc = "st_save"
    /\ alarms' = AlarmsClear(alarms, getAlarmName(tasks[i].tabId))
    /\ Put(i, [tasks[i] EXCEPT !.pc = "st_clear"])
    /\ UNCHANGED <<store, tabState, badge>>

\* AlarmService.schedule: create when the interval is positive; then updateBadge
SetTimerCleared(i) ==
    /\ tasks[i].pc = "st_clear"
    /\ alarms' = scheduleCreate(alarms, tasks[i].tabId, tasks[i].interval)
    /\ Put(i, EnterBadge(tasks[i]))
    /\ UNCHANGED <<store, tabState, badge>>

\* ------------------------------------------------------------ BadgeService.updateBadge
\* With showBadge off the text is cleared and updateBadge returns; otherwise
\* getAllReloaderAlarms is issued.
BadgeOptions(i) ==
    /\ tasks[i].pc = "bg_opts"
    /\ IF ~tasks[i].opts.showBadge
       THEN /\ badge' = <<>>
            /\ Put(i, Completed(tasks[i]))
       ELSE /\ badge' = badge
            /\ Put(i, [tasks[i] EXCEPT !.pc = "bg_alarms",
                                       !.seen = getAllReloaderAlarms(alarms)])
    /\ UNCHANGED <<store, alarms, tabState>>

\* setBadgeText, then setBadgeBackgroundColor (a constant colour, not part of
\* the state), after which the caller returns.
BadgeAlarms(i) ==
    /\ tasks[i].pc = "bg_alarms"
    /\ badge' = badgeText(tasks[i].seen)
    /\ Put(i, Completed(tasks[i]))
    /\ UNCHANGED <<store, alarms, tabState>>

\* ------------------------------------------------------------ read-only handlers
HandleGetTimer(i, req) ==
    /\ Free(i, "getTimer")
    /\ req.action = "getTimer"
    /\ Put(i, [NewTask(i, "getTimer", req) EXCEPT
                  !.pc = "done",
                  !.resp = IF ~Has(req, "tabId") THEN Failure("Missing tabId")
                           ELSE [success |-> TRUE,
                                 interval |-> getInterval(store, req.tabId)]])
    /\ UNCHANGED <<store, alarms, tabState, badge>>

\* ------------------------------------------------------------ handleGetAllTimers
\* The Tab object chrome.tabs.get resolves with: the first tab has a title
\* and a url, the others have neither (a tab that has not loaded, or one the
\* extension may not read).
TabObject(tabId) ==
    IF tabId = 1
    THEN [title |-> <<"N", "e", "w", "s">>, url |-> <<"h", "t", "t", "p", ":", "/", "/", "n">>]
    ELSE [title |-> <<>>, url |-> <<>>]

\* a || b on strings: the empty string and undefined are falsy
Or(a, b) == IF a = <<>> THEN b ELSE a

FallbackTitle(tabId) == <<"T", "a", "b", " ">> \o StringOf(tabId)

\* TabService.getTabInfo: chrome.tabs.get rejects when no tab has the id and
\* the catch returns null.
getTabInfo(tabId) ==
    IF tabState[tabId] = "open"
    THEN [null |-> FALSE,
          title |-> Or(TabObject(tabId).title, FallbackTitle(tabId)),
          url |-> Or(TabObject(tabId).url, <<>>)]
    ELSE [null |-> TRUE, title |-> <<>>, url |-> <<>>]

\* The item with tabInfo's title as it is, without the `Tab ${tabId}` fallback.
TimerItem_nofallback(e, tabInfo) ==
    [tabId |-> e.tabId, interval |-> e.interval,
     title |-> tabInfo.title,
     url |-> Or(tabInfo.url, <<>>)]

\* The item pushed for an entry: tabInfo?.title || `Tab ${tabId}`,
\* tabInfo?.url || ''
TimerItem(e, tabInfo) ==
    [tabId |-> e.tabId, interval |-> e.interval,
     title |-> Or(tabInfo.title, FallbackTitle(e.tabId)),
     url |-> Or(tabInfo.url, <<>>)]

\* getAllIntervals is issued.
HandleGetAllTimers(i) ==
    /\ Free(i, "getAllTimers")
    /\ Put(i, [NewTask(i, "getAllTimers", [action |-> "getAllTimers"]) EXCEPT
                  !.pc = "ga_list",
                  !.entries = getAllIntervals(StorageGetAll(store))])
    /\ UNCHANGED <<store, alarms, tabState, badge>>

\* getAllOpenTabIds is issued.
GetAllListed(i) ==
    /\ tasks[i].pc = "ga_list"
    /\ Put(i, [tasks[i] EXCEPT !.pc = "ga_tabs", !.openIds = getAllOpenTabIds,
                               !.todo = DOMAIN tasks[i].entries])
    /\ UNCHANGED <<store, alarms, tabState, badge>>

\* The for loop: elements whose tab is not in openTabIds are skipped; for the
\* next other element getTabInfo is issued, its item is the one pushed when
\* the handler resumes; after the last element the handler returns.
GetAllLoop(i) ==
    LET t == tasks[i]
        left == {key \in t.todo : t.entries[key].tabId \in t.openIds}
    IN  IF left = {}
        THEN Put(i, [t EXCEPT !.pc = "done", !.todo = {},
                              !.resp = [success |-> TRUE, timers |-> t.timers]])
        ELSE \E key \in left :
                Put(i, [t EXCEPT
                           !.pc = "ga_info", !.todo = left \ {key}, !.cur = key,
                           !.timers = Spread(t.timers,
                               [k \in {key} |->
                                   TimerItem(t.entries[key],
                                             getTabInfo(t.entries[key].tabId))])])

GetAllTabs(i) ==
    /\ tasks[i].pc = "ga_tabs"
    /\ GetAllLoop(i)
    /\ UNCHANGED <<store, alarms, tabState, badge>>

GetAllInfo(i) ==
    /\ tasks[i].pc = "ga_info"
    /\ GetAllLoop(i)
    /\ UNCHANGED <<store, alarms, tabState, badge>>

HandleExportSettings(i) ==
    /\ Free(i, "exportSettings")
    /\ Put(i, [NewTask(i, "exportSettings", [action |-> "exportSettings"]) EXCEPT
                  !.pc = "done",
                  !.resp = [success |-> TRUE, data |-> exportAll(store)]])
    /\ UNCHANGED <<store, alarms, tabState, badge>>

HandleGetOptions(i) ==
    /\ Free(i, "getOptions")
    /\ Put(i, [NewTask(i, "getOptions", [action |-> "getOptions"]) EXCEPT
                  !.pc = "done",
                  !.resp = [success |-> TRUE, options |-> getOptions(store)]])
    /\ UNCHANGED <<store, alarms, tabState, badge>>

\* ------------------------------------------------------------ handleSaveOptions
\* !options || typeof options !== 'object'
NotAnObject(req, field) == ~Has(req, field) \/ req[field].type # "object"

HandleSaveOptions(i, req) ==
    /\ Free(i, "saveOptions")
    /\ req.action = "saveOptions"
    /\ IF NotAnObject(req, "options")
       THEN Put(i, [NewTask(i, "saveOptions", req) EXCEPT
                       !.pc = "done", !.resp = Failure("Invalid options data")])
       ELSE Put(i, EnterSaveOptions([NewTask(i, "saveOptions", req) EXCEPT
                                        !.data = req.options.val]))
    /\ UNCHANGED <<store, alarms, tabState, badge>>

\* A merge that starts from the defaults instead of the stored record.
mergeOptions_defaults(current, options) == Spread(DEFAULT_OPTIONS, options)

\* merged = { ...current, ...options }
mergeOptions(current, options) == Spread(current, options)

\* saveOptions: getOptions has resolved; set({ [OPTIONS_KEY]: merged })
SaveOptionsRead(i) ==
    /\ tasks[i].pc = "so_get"
    /\ store' = StorageSet(store,
                    [k \in {OPTIONS_KEY} |-> mergeOptions(tasks[i].opts, tasks[i].data)])
    /\ Put(i, [tasks[i] EXCEPT !.pc = "so_set"])
    /\ UNCHANGED <<alarms, tabState, badge>>

SaveOptionsWritten(i) ==
    /\ tasks[i].pc = "so_set"
    /\ Put(i, EnterBadge(tasks[i]))
    /\ UNCHANGED <<store, alarms, tabState, badge>>

\* ------------------------------------------------------------ restoreAlarmsFromStorage
\* getAllIntervals has resolved: getAllOpenTabIds is issued.
RestoreListed(i) ==
    /\ tasks[i].pc = "rs_list"
    /\ Put(i, [tasks[i] EXCEPT !.pc = "rs_tabs", !.openIds = getAllOpenTabIds,
                               !.todo = DOMAIN tasks[i].entries])
    /\ UNCHANGED <<store, alarms, tabState, badge>>

\* The head of the for loop, entered with the alarms as the previous iteration
\* left them: the next element is scheduled (its alarm cleared first) when its
\* tab is open and removed from the store otherwise; after the last element
\* the caller goes on to updateBadge.
RestoreLoop(i, al) ==
    LET t == tasks[i] IN
    IF t.todo = {}
    THEN /\ Put(i, EnterBadge(t))
         /\ alarms' = al
         /\ UNCHANGED store
    ELSE \E key \in t.todo :
            LET e == t.entries[key]
                next == [t EXCEPT !.todo = t.todo \ {key}, !.cur = key]
            IN  IF e.tabId \in t.openIds /\ e.interval > 0
                THEN /\ alarms' = AlarmsClear(al, getAlarmName(e.tabId))
                     /\ Put(i, [next EXCEPT !.pc = "rs_clear"])
                     /\ UNCHANGED store
                ELSE /\ store' = removeInterval(store, e.tabId)
                     /\ alarms' = al
                     /\ Put(i, [next EXCEPT !.pc = "rs_remove"])

RestoreTabs(i) ==
    /\ tasks[i].pc = "rs_tabs"
    /\ RestoreLoop(i, alarms)
    /\ UNCHANGED <<tabState, badge>>

\* schedule resumes after its clear and creates the alarm
RestoreCleared(i) ==
    /\ tasks[i].pc = "rs_clear"
    /\ LET e == tasks[i].entries[tasks[i].cur]
       IN  RestoreLoop(i, scheduleCreate(alarms, e.tabId, e.interval))
    /\ UNCHANGED <<tabState, badge>>

RestoreRemoved(i) ==
    /\ tasks[i].pc = "rs_remove"
    /\ RestoreLoop(i, alarms)
    /\ UNCHANGED <<tabState, badge>>

\* A call of the loop body rejects or throws (chrome.storage.local.remove or
\* chrome.alarms.clear rejects, chrome.alarms.create throws): the try block
\* encloses the whole for loop, so control leaves the loop for the catch
\* block, the error is logged, restoreAlarmsFromStorage returns and its caller
\* goes on to updateBadge.  Either the call issued for the next element fails
\* (the create of the element before it has run), or the create of the
\* current element throws.
RestoreThrows(i) ==
    LET t == tasks[i] IN
    /\ \/ /\ t.pc \in {"rs_tabs", "rs_clear", "rs_remove"}
          /\ t.todo # {}
          /\ alarms' = IF t.pc = "rs_clear"
                       THEN scheduleCreate(alarms, t.entries[t.cur].tabId,
                                           t.entries[t.cur].interval)
                       ELSE alarms
          /\ \E key \in t.todo :
                Put(i, EnterBadge([t EXCEPT !.todo = t.todo \ {key}, !.cur = key,
                                            !.failed = TRUE]))
       \/ /\ t.pc = "rs_clear"
          /\ alarms' = alarms
          /\ Put(i, EnterBadge([t EXCEPT !.failed = TRUE]))
    /\ UNCHANGED <<store, tabState, badge>>

\* ------------------------------------------------------------ handleImportSettings
\* clearAll is entered: getAllReloaderAlarms is issued.
HandleImportSettings(i, req) ==
    /\ Free(i, "importSettings")
    /\ req.action = "importSettings"
    /\ IF NotAnObject(req, "data")
       THEN Put(i, [NewTask(i, "importSettings", req) EXCEPT
                       !.pc = "done", !.resp = Failure("Invalid import data")])
       ELSE Put(i, [NewTask(i, "importSettings", req) EXCEPT
                       !.pc = "im_getall", !.data = req.data.val,
                       !.seen = getAllReloaderAlarms(alarms)])
    /\ UNCHANGED <<store, alarms, tabState, badge>>

\* The popup imports the document an export has just returned.
HandleImportExported(i) ==
    /\ tasks[i].pc = "done"
    /\ tasks[i].kind = "exportSettings"
    /\ Put(i, [NewTask(i, "importSettings",
                       [action |-> "importSettings",
                        data |-> ObjectValue(tasks[i].resp.data)]) EXCEPT
                  !.pc = "im_getall", !.data = tasks[i].resp.data,
                  !.seen = getAllReloaderAlarms(alarms)])
    /\ UNCHANGED <<store, alarms, tabState, badge>>

ImportListed(i) ==
    /\ tasks[i].pc = "im_getall"
    /\ alarms' = clearEach(alarms, tasks[i].seen)
    /\ Put(i, [tasks[i] EXCEPT !.pc = "im_clearall"])
    /\ UNCHANGED <<store, tabState, badge>>

\* importAll: clear
ImportAlarmsCleared(i) ==
    /\ tasks[i].pc = "im_clearall"
    /\ store' = StorageClear(store)
    /\ Put(i, [tasks[i] EXCEPT !.pc = "im_clear"])
    /\ UNCHANGED <<alarms, tabState, badge>>

\* importAll: set(data)
ImportStoreCleared(i) ==
    /\ tasks[i].pc = "im_clear"
    /\ store' = StorageSet(store, tasks[i].data)
    /\ Put(i, [tasks[i] EXCEPT !.pc = "im_set"])
    /\ UNCHANGED <<alarms, tabState, badge>>

\* importAll: chrome.storage.local.set refuses an array (items must be an
\* object); importAll rejects, handleImportSettings rejects and onMessage's
\* catch answers with the error.  The clear before it has run.
ImportSetRejects(i) ==
    /\ tasks[i].pc = "im_clear"
    /\ Has(tasks[i].req.data, "array")
    /\ Put(i, [tasks[i] EXCEPT !.pc = "done", !.failed = TRUE,
                               !.resp = Failure("Invalid type: expected object")])
    /\ UNCHANGED <<store, alarms, tabState, badge>>

ImportStoreSet(i) ==
    /\ tasks[i].pc = "im_set"
    /\ Put(i, EnterRestore(tasks[i]))
    /\ UNCHANGED <<store, alarms, tabState, badge>>

\* ------------------------------------------------------------ chrome.alarms.onAlarm
\* A live alarm fires.  An unparseable name ends the handler; otherwise
\* getOptions is issued.  The browser keeps an alarm that has a period and
\* drops one that has none once it has fired.
OnAlarm(i, alarm) ==
    /\ Free(i, "onAlarm")
    /\ alarm \in alarms
    /\ LET tabId == parseTabId(alarm.name)
           t == NewTask(i, "onAlarm", [name |-> alarm.name])
       IN  IF tabId.nan
           THEN Put(i, [t EXCEPT !.pc = "done"])
           ELSE Put(i, [t EXCEPT !.pc = "fa_opts", !.tabId = tabId.val,
                                 !.opts = getOptions(store)])
    /\ alarms' = IF alarm.periodInMinutes > 0 THEN alarms ELSE alarms \ {alarm}
    /\ UNCHANGED <<store, tabState, badge>>

\* A reload that leaves bypassCache to reloadTab's default.
AlarmOptions_default(i) ==
    /\ tasks[i].pc = "fa_opts"
    /\ Put(i, [tasks[i] EXCEPT
                  !.pc = "fa_reload",
                  !.reload = [tried |-> TRUE, tabId |-> tasks[i].tabId,
                              bypassCache |-> TRUE,
                              ok |-> tasks[i].tabId \in openTabs]])
    /\ UNCHANGED <<store, alarms, tabState, badge>>

\* TabService.reloadTab(tabId, options.bypassCache): chrome.tabs.reload
\* rejects when no tab has the id.
AlarmOptions(i) ==
    /\ tasks[i].pc = "fa_opts"
    /\ Put(i, [tasks[i] EXCEPT
                  !.pc = "fa_reload",
                  !.reload = [tried |-> TRUE, tabId |-> tasks[i].tabId,
                              bypassCache |-> tasks[i].opts.bypassCache,
                              ok |-> tasks[i].tabId \in openTabs]])
    /\ UNCHANGED <<store, alarms, tabState, badge>>

\* A handler that removes the entry of the tab once the reload has resolved.
AlarmReloaded_forgets(i) ==
    /\ tasks[i].pc = "fa_reload"
    /\ IF tasks[i].reload.ok
       THEN /\ Put(i, Completed(tasks[i]))
            /\ store' = removeInterval(store, tasks[i].tabId)
            /\ UNCHANGED alarms
       ELSE /\ alarms' = AlarmsClear(alarms, getAlarmName(tasks[i].tabId))
            /\ Put(i, [tasks[i] EXCEPT !.pc = "fa_clear"])
            /\ UNCHANGED store
    /\ UNCHANGED <<tabState, badge>>

\* A handler that ignores the rejection of the reload.
AlarmReloaded_ignored(i) ==
    /\ tasks[i].pc = "fa_reload"
    /\ Put(i, Completed(tasks[i]))
    /\ UNCHANGED <<store, alarms, tabState, badge>>

\* A handler that runs its cleanup whether the reload resolved or not.
AlarmReloaded_cleanup(i) ==
    /\ tasks[i].pc = "fa_reload"
    /\ alarms' = AlarmsClear(alarms, getAlarmName(tasks[i].tabId))
    /\ Put(i, [tasks[i] EXCEPT !.pc = "fa_clear"])
    /\ UNCHANGED <<store, tabState, badge>>

\* The reload resolved: done.  It rejected: the catch block clears the alarm.
AlarmReloaded(i) ==
    /\ tasks[i].pc = "fa_reload"
    /\ IF tasks[i].reload.ok
       THEN /\ Put(i, Completed(tasks[i]))
            /\ UNCHANGED alarms
       ELSE /\ alarms' = AlarmsClear(alarms, getAlarmName(tasks[i].tabId))
            /\ Put(i, [tasks[i] EXCEPT !.pc = "fa_clear"])
    /\ UNCHANGED <<store, tabState, badge>>

AlarmCleared(i) ==
    /\ tasks[i].pc = "fa_clear"
    /\ store' = removeInterval(store, tasks[i].tabId)
    /\ Put(i, [tasks[i] EXCEPT !.pc = "fa_remove"])
    /\ UNCHANGED <<alarms, tabState, badge>>

AlarmRemoved(i) ==
    /\ tasks[i].pc = "fa_remove"
    /\ Put(i, EnterBadge(tasks[i]))
    /\ UNCHANGED <<store, alarms, tabState, badge>>

\* ------------------------------------------------------------ chrome.tabs.onRemoved
OnRemoved(i, tabId) ==
    /\ Free(i, "onRemoved")
    /\ tabState[tabId] = "closing"
    /\ tabState' = [tabState EXCEPT ![tabId] = "closed"]
    /\ alarms' = AlarmsClear(alarms, getAlarmName(tabId))
    /\ Put(i, [NewTask(i, "onRemoved", [tabId |-> tabId]) EXCEPT
                  !.pc = "rm_clear", !.tabId = tabId])
    /\ UNCHANGED <<store, badge>>

RemovedCleared(i) ==
    /\ tasks[i].pc = "rm_clear"
    /\ store' = removeInterval(store, tasks[i].tabId)
    /\ Put(i, [tasks[i] EXCEPT !.pc = "rm_remove"])
    /\ UNCHANGED <<alarms, tabState, badge>>

RemovedRemoved(i) ==
    /\ tasks[i].pc = "rm_remove"
    /\ Put(i, EnterBadge(tasks[i]))
    /\ UNCHANGED <<store, alarms, tabState, badge>>

\* ------------------------------------------------------------ lifecycle
\* The browser starts again: the tabs of the new session have any ids, the
\* alarms have survived the restart or have not, and onStartup restores.
OnStartup(i) ==
    /\ Idle
    /\ tabState' \in [TabIds -> {"open", "closed"}]
    /\ alarms' \in {alarms, {}}
    /\ Put(i, EnterRestore([NewTask(i, "onStartup", [event |-> "onStartup"]) EXCEPT
                               !.pre = [Snapshot EXCEPT
                                           !.alarms = alarms',
                                           !.open = {t \in TabIds :
                                                        tabState'[t] = "open"}]]))
    /\ UNCHANGED <<store, badge>>

\* The extension is updated: onInstalled('update') restores.
OnUpdated(i) ==
    /\ Idle
    /\ alarms' \in {alarms, {}}
    /\ Put(i, EnterRestore([NewTask(i, "onInstalled", [reason |-> "update"]) EXCEPT
                               !.pre = [Snapshot EXCEPT !.alarms = alarms']]))
    /\ UNCHANGED <<store, tabState, badge>>

\* ------------------------------------------------------------ tabs
CloseTab(tabId) ==
    /\ tabState[tabId] = "open"
    /\ tabState' = [tabState EXCEPT ![tabId] = "closing"]
    /\ UNCHANGED <<store, alarms, badge, tasks>>

\* ------------------------------------------------------------ specifications
Resume(i) ==
    \/ SetTimerSaved(i)
    \/ SetTimerCleared(i)
    \/ BadgeOptions(i)
    \/ BadgeAlarms(i)
    \/ SaveOptionsRead(i)
    \/ SaveOptionsWritten(i)
    \/ RestoreListed(i)
    \/ RestoreTabs(i)
    \/ RestoreCleared(i)
    \/ RestoreRemoved(i)
    \/ ImportListed(i)
    \/ ImportAlarmsCleared(i)
    \/ ImportStoreCleared(i)
    \/ ImportStoreSet(i)
    \/ AlarmOptions(i)
    \/ AlarmReloaded(i)
    \/ AlarmCleared(i)
    \/ AlarmRemoved(i)
    \/ RemovedCleared(i)
    \/ RemovedRemoved(i)

\* The response has been delivered and the slot is empty again.
Forget(i) ==
    /\ tasks[i].pc = "done"
    /\ Put(i, IdleTask)
    /\ UNCHANGED <<store, alarms, tabState, badge>>

\* One handler at a time: an event is dispatched when the handler before it
\* has completed.
Next ==
    \/ \E req \in SetTimerRequests : HandleSetTimer("a", req)
    \/ \E req \in GetTimerRequests : HandleGetTimer("a", req)
    \/ HandleExportSettings("a")
    \/ HandleGetOptions("a")
    \/ \E req \in ImportRequests : HandleImportSettings("a", req)
    \/ HandleImportExported("a")
    \/ \E alarm \in alarms : OnAlarm("a", alarm)
    \/ \E t \in TabIds : OnRemoved("a", t)
    \/ OnStartup("a")
    \/ OnUpdated("a")
    \/ Resume("a")
    \/ Forget("a")
    \/ \E t \in TabIds : Idle /\ CloseTab(t)

Spec == Init /\ [][Next]_vars

\* The store once onInstalled('install') has saved the default options.
InstalledStore == StorageSet(EmptyStore, [k \in {OPTIONS_KEY} |-> DEFAULT_OPTIONS])

\* The extension is installed, its options are saved and no handler runs.
InitRace ==
    /\ store = InstalledStore
    /\ alarms = {}
    /\ tabState = [t \in TabIds |-> "open"]
    /\ badge = <<>>
    /\ tasks = [i \in Slots |-> IdleTask]

\* Two handlers at a time: a request or an event is dispatched while another
\* handler is suspended at an await, and tabs close at any moment.
ResumeRace(i) ==
    \/ SetTimerSaved(i)
    \/ SetTimerCleared(i)
    \/ BadgeOptions(i)
    \/ BadgeAlarms(i)
    \/ RestoreListed(i)
    \/ RestoreTabs(i)
    \/ RestoreCleared(i)
    \/ RestoreRemoved(i)
    \/ AlarmOptions(i)
    \/ AlarmReloaded(i)
    \/ AlarmCleared(i)
    \/ AlarmRemoved(i)
    \/ RemovedCleared(i)
    \/ RemovedRemoved(i)

\* The handlers race over one tab.
RaceTab == CHOOSE t \in TabIds : \A u \in TabIds : t <= u

RaceRequests ==
    {[action |-> "setTimer", tabId |-> RaceTab, interval |-> n] :
        n \in RequestIntervals}

NextRace ==
    \/ \E i \in Slots : \E req \in RaceRequests : HandleSetTimer(i, req)
    \/ \E i \in Slots : \E alarm \in alarms : OnAlarm(i, alarm)
    \/ \E i \in Slots : OnRemoved(i, RaceTab)
    \/ OnUpdated("a")
    \/ \E i \in Slots : ResumeRace(i)
    \/ \E i \in Slots : Forget(i)
    \/ CloseTab(RaceTab)

SpecRace == InitRace /\ [][NextRace]_vars

\* Two setTimer requests on one tab and nothing else: each slot takes one
\* request, and the steps of the two handlers interleave freely.  The tab is
\* open and starts with no schedule or with a schedule and its timer.
InitPair ==
    \E n \in RequestIntervals :
        /\ store = IF n > 0
                   THEN saveInterval(InstalledStore, RaceTab, n)
                   ELSE InstalledStore
        /\ alarms = scheduleCreate({}, RaceTab, n)
        /\ tabState = [t \in TabIds |-> "open"]
        /\ badge = badgeText(getAllReloaderAlarms(scheduleCreate({}, RaceTab, n)))
        /\ tasks = [i \in Slots |-> IdleTask]

ResumePair(i) ==
    \/ SetTimerSaved(i)
    \/ SetTimerCleared(i)
    \/ BadgeOptions(i)
    \/ BadgeAlarms(i)

NextPair ==
    \/ \E i \in Slots : \E req \in RaceRequests :
          tasks[i].pc = "idle" /\ HandleSetTimer(i, req)
    \/ \E i \in Slots : ResumePair(i)

SpecPair == InitPair /\ [][NextPair]_vars

\* ------------------------------------------------------------ chrome.runtime.onMessage
\* The seven actions of messageHandlers.
MessageKinds ==
    {"setTimer", "getTimer", "getAllTimers", "exportSettings", "importSettings",
     "getOptions", "saveOptions"}

\* The saveOptions messages of the protocol runs: the badge is switched off,
\* or the options are missing.
BadgeOffRequests ==
    {req \in SaveOptionsRequests :
        Has(req, "options") => req.options.val = [showBadge |-> FALSE]}

\* The requests whose handler makes an API call.
CallingRequests ==
    {req \in SetTimerRequests : Has(req, "tabId") /\ Has(req, "interval") /\ req.tabId # 0}
    \cup {req \in GetTimerRequests : Has(req, "tabId")}
    \cup {req \in ImportRequests \cup BadgeOffRequests :
             ~NotAnObject(req, IF req.action = "importSettings" THEN "data" ELSE "options")}
    \cup {[action |-> a] : a \in {"getAllTimers", "exportSettings", "getOptions"}}

\* handler(request).catch(error => sendResponse({ success: false, error:
\* error.message })): the first API call of the handler rejects.
FirstCallRejects(i, req) ==
    /\ Free(i, req.action)
    /\ Put(i, [NewTask(i, req.action, req) EXCEPT
                  !.pc = "done", !.failed = TRUE, !.resp = Failure("api error")])
    /\ UNCHANGED <<store, alarms, tabState, badge>>

\* The call a suspended message handler issues next rejects, outside any
\* try block: the handler's promise rejects and the catch of onMessage
\* answers.
HandlerRejects(i) ==
    /\ tasks[i].kind \in MessageKinds
    /\ tasks[i].pc \in {"st_save", "st_clear", "im_getall", "im_clearall",
                        "im_clear", "so_get", "ga_list"}
    /\ Put(i, [tasks[i] EXCEPT
                  !.pc = "done", !.failed = TRUE, !.resp = Failure("api error")])
    /\ UNCHANGED <<store, alarms, tabState, badge>>

\* A call of updateBadge rejects: its catch logs the error and updateBadge
\* returns, so the caller completes.
BadgeThrows(i) ==
    /\ tasks[i].pc \in {"bg_opts", "bg_alarms"}
    /\ Put(i, [Completed(tasks[i]) EXCEPT !.failed = TRUE])
    /\ UNCHANGED <<store, alarms, tabState, badge>>

ResumeMessages(i) ==
    \/ SetTimerSaved(i)
    \/ SetTimerCleared(i)
    \/ BadgeOptions(i)
    \/ BadgeAlarms(i)
    \/ GetAllListed(i)
    \/ GetAllTabs(i)
    \/ GetAllInfo(i)
    \/ SaveOptionsRead(i)
    \/ SaveOptionsWritten(i)
    \/ RestoreListed(i)
    \/ RestoreTabs(i)
    \/ RestoreCleared(i)
    \/ RestoreRemoved(i)
    \/ ImportListed(i)
    \/ ImportAlarmsCleared(i)
    \/ ImportStoreCleared(i)
    \/ ImportStoreSet(i)

\* The extension is installed; one tab is open and the other ids are of no
\* tab.
InitMessages ==
    /\ store = InstalledStore
    /\ alarms = {}
    /\ tabState = [t \in TabIds |-> IF t = RaceTab THEN "open" ELSE "closed"]
    /\ badge = <<>>
    /\ tasks = [i \in Slots |-> IdleTask]

\* The message protocol alone: the seven actions, one handler at a time, and
\* calls that may fail.
NextMessages ==
    \/ \E req \in SetTimerRequests : HandleSetTimer("a", req)
    \/ \E req \in GetTimerRequests : HandleGetTimer("a", req)
    \/ HandleGetAllTimers("a")
    \/ HandleExportSettings("a")
    \/ HandleGetOptions("a")
    \/ \E req \in ImportRequests : HandleImportSettings("a", req)
    \/ \E req \in BadgeOffRequests : HandleSaveOptions("a", req)
    \/ \E req \in CallingRequests : FirstCallRejects("a", req)
    \/ HandlerRejects("a")
    \/ BadgeThrows("a")
    \/ RestoreThrows("a")
    \/ ResumeMessages("a")
    \/ Forget("a")

SpecMessages == InitMessages /\ [][NextMessages]_vars

\* ------------------------------------------------------------ options
\* The Options Records a store can hold: saveOptions writes all three fields,
\* an imported document holds any of them or none.
StoredOptions ==
    {Spread(Spread(a, b), c) :
        a \in {EmptyObject, [defaultInterval |-> 10]},
        b \in {EmptyObject, [bypassCache |-> TRUE], [bypassCache |-> FALSE]},
        c \in {EmptyObject, [showBadge |-> TRUE], [showBadge |-> FALSE]}}

InitOptions ==
    /\ store \in {EmptyStore}
                 \cup {[k \in {OPTIONS_KEY} |-> o] : o \in StoredOptions}
    /\ alarms = {}
    /\ tabState = [t \in TabIds |-> IF t = RaceTab THEN "open" ELSE "closed"]
    /\ badge = <<>>
    /\ tasks = [i \in Slots |-> IdleTask]

ResumeOptions(i) ==
    \/ SaveOptionsRead(i)
    \/ SaveOptionsWritten(i)
    \/ BadgeOptions(i)
    \/ BadgeAlarms(i)
    \/ RestoreListed(i)
    \/ RestoreTabs(i)
    \/ RestoreCleared(i)
    \/ RestoreRemoved(i)
    \/ ImportListed(i)
    \/ ImportAlarmsCleared(i)
    \/ ImportStoreCleared(i)
    \/ ImportStoreSet(i)

\* The options: saveOptions and getOptions requests, and imports of documents
\* that hold no Options Record, one handler at a time.
NextOptions ==
    \/ \E req \in SaveOptionsRequests : HandleSaveOptions("a", req)
    \/ HandleGetOptions("a")
    \/ \E req \in ImportRequests : HandleImportSettings("a", req)
    \/ ResumeOptions("a")
    \/ Forget("a")

SpecOptions == InitOptions /\ [][NextOptions]_vars

\* One handler at a time; a call inside the reconciliation loop may fail, and
\* an imported file may hold an array.
NextFail ==
    \/ Next
    \/ RestoreThrows("a")
    \/ \E req \in ArrayImportRequests : HandleImportSettings("a", req)
    \/ ImportSetRejects("a")

SpecFail == Init /\ [][NextFail]_vars

\* One handler at a time, and setTimer messages may carry a negative interval.
NegativeRequests ==
    {[action |-> "setTimer", tabId |-> t, interval |-> -n] :
        t \in TabIds, n \in PosIntervals}

NextNegative ==
    \/ Next
    \/ \E req \in NegativeRequests : HandleSetTimer("a", req)

SpecNegative == Init /\ [][NextNegative]_vars

\* The listing alone: getAllTimers over any store content, while tabs close.
\* A key with the prefix and a suffix parseInt reads no number from.
NonNumericKey == ALARM_NAME_PREFIX \o <<"x">>

ListingKeys ==
    {getKey(t) : t \in TabIds} \cup {PaddedKey, NonNumericKey, UnknownKey, OPTIONS_KEY}

ListingValues(key) ==
    IF key = OPTIONS_KEY THEN {DEFAULT_OPTIONS}
    ELSE IF key = UnknownKey THEN {[data |-> "hello"], [interval |-> MaxInterval]}
    ELSE {[interval |-> MaxInterval], [interval |-> 0], [interval |-> 0 - 1],
          EmptyObject}

ListingStores ==
    UNION {{b \in [ks -> UNION {ListingValues(k) : k \in ks}] :
               \A k \in ks : b[k] \in ListingValues(k)} :
           ks \in SUBSET ListingKeys}

InitListing ==
    /\ store \in ListingStores
    /\ alarms = {}
    /\ tabState \in [TabIds -> {"open", "closed"}]
    /\ badge = <<>>
    /\ tasks = [i \in Slots |-> IdleTask]

NextListing ==
    \/ HandleGetAllTimers("a")
    \/ GetAllListed("a")
    \/ GetAllTabs("a")
    \/ GetAllInfo("a")
    \/ \E t \in TabIds : CloseTab(t)
    \/ Forget("a")

SpecListing == InitListing /\ [][NextListing]_vars

\* Timers firing: setTimer and saveOptions requests for one tab, the tab
\* closing without its onRemoved event ever being delivered, and an alarm of
\* another name in the registry.  The store has the installed options, or
\* none (an import of a document without options has removed them).
StrayAlarm ==
    Alarm(<<"k", "e", "e", "p">>, [delayInMinutes |-> 1, periodInMinutes |-> 1])

CachePatches == {[bypassCache |-> FALSE], [bypassCache |-> TRUE]}

CacheRequests ==
    {[action |-> "saveOptions", options |-> ObjectValue(o)] : o \in CachePatches}

InitFire ==
    /\ store \in {InstalledStore, EmptyStore}
    /\ alarms \in {{}, {StrayAlarm}}
    /\ tabState = [t \in TabIds |-> IF t = RaceTab THEN "open" ELSE "closed"]
    /\ badge = <<>>
    /\ tasks = [i \in Slots |-> IdleTask]

ResumeFire(i) ==
    \/ SetTimerSaved(i)
    \/ SetTimerCleared(i)
    \/ BadgeOptions(i)
    \/ BadgeAlarms(i)
    \/ SaveOptionsRead(i)
    \/ SaveOptionsWritten(i)
    \/ AlarmOptions(i)
    \/ AlarmReloaded(i)
    \/ AlarmCleared(i)
    \/ AlarmRemoved(i)

\* The timer of a tab fires.
Fire(i, tabId) ==
    \E alarm \in alarms :
        /\ parseTabId(alarm.name) = Num(tabId)
        /\ OnAlarm(i, alarm)

NextFire ==
    \/ \E req \in RaceRequests : HandleSetTimer("a", req)
    \/ \E req \in CacheRequests : HandleSaveOptions("a", req)
    \/ \E alarm \in alarms : OnAlarm("a", alarm)
    \/ ResumeFire("a")
    \/ Forget("a")
    \/ CloseTab(RaceTab)

SpecFire == InitFire /\ [][NextFire]_vars

\* A live timer fires again and again whatever else is dispatched, a
\* suspended handler resumes when its call settles, and a delivered response
\* leaves the slot.
FairFire ==
    /\ WF_vars(ResumeFire("a"))
    /\ SF_vars(Forget("a"))
    /\ \A t \in TabIds : SF_vars(Fire("a", t))

SpecFireFair == SpecFire /\ FairFire

\* Alarm names: parseTabId over the names an alarm can carry.  The names of
\* the tabs and of the ids 0 and -1, a zero-padded suffix, a suffix with
\* characters after its digits, a suffix without digit, no suffix, and a name
\* without the prefix.
NameIds == TabIds \cup {0, 0 - 1}

TrailingName == ALARM_NAME_PREFIX \o <<"1", "x">>

AlarmNames ==
    {getAlarmName(t) : t \in NameIds}
    \cup {PaddedKey, TrailingName, NonNumericKey, ALARM_NAME_PREFIX, StrayAlarm.name}

MaxNames == 2

InitNames ==
    /\ store = InstalledStore
    /\ \E ns \in SUBSET AlarmNames :
          /\ Cardinality(ns) <= MaxNames
          /\ alarms = {Alarm(n, [delayInMinutes |-> 1, periodInMinutes |-> 1]) :
                          n \in ns}
    /\ tabState \in [TabIds -> {"open", "closed"}]
    /\ badge = <<>>
    /\ tasks = [i \in Slots |-> IdleTask]

NextNames ==
    \/ \E alarm \in alarms : OnAlarm("a", alarm)
    \/ AlarmOptions("a")
    \/ AlarmReloaded("a")
    \/ AlarmCleared("a")
    \/ AlarmRemoved("a")
    \/ BadgeOptions("a")
    \/ BadgeAlarms("a")
    \/ Forget("a")

SpecNames == InitNames /\ [][NextNames]_vars

\* Restricted urls: TabService.isRestrictedUrl over the urls a tab can have.
RESTRICTED_URL_PREFIXES ==
    {<<"c", "h", "r", "o", "m", "e", ":", "/", "/">>,
     <<"c", "h", "r", "o", "m", "e", "-", "e", "x", "t", "e", "n", "s", "i", "o", "n", ":", "/", "/">>,
     <<"f", "i", "l", "e", ":", "/", "/">>,
     <<"h", "t", "t", "p", "s", ":", "/", "/", "c", "h", "r", "o", "m", "e", ".", "g", "o", "o", "g", "l", "e", ".", "c", "o", "m", "/", "w", "e", "b", "s", "t", "o", "r", "e">>,
     <<"e", "d", "g", "e", ":", "/", "/">>,
     <<"a", "b", "o", "u", "t", ":">>}

\* A url argument: a string, or null / undefined.
Url(str) == [null |-> FALSE, str |-> str]

NullUrl == [null |-> TRUE, str |-> <<>>]

\* A url that stops one character short of the prefix.
Shortened(p) == SubSeq(p, 1, Len(p) - 1)

Urls ==
    {Url(p) : p \in RESTRICTED_URL_PREFIXES}
    \cup {Url(p \o <<"x">>) : p \in RESTRICTED_URL_PREFIXES}
    \cup {Url(Shortened(p)) : p \in RESTRICTED_URL_PREFIXES}
    \cup {Url(<<"x">> \o p) : p \in RESTRICTED_URL_PREFIXES}
    \cup {Url(<<"h", "t", "t", "p", "s", ":", "/", "/", "e", "x", "a", "m", "p", "l", "e", ".", "c", "o", "m">>), Url(<<"h", "t", "t", "p", ":", "/", "/", "l", "o", "c", "a", "l", "h", "o", "s", "t", ":", "3", "0", "0", "0">>), Url(<<"C", "h", "r", "o", "m", "e", ":", "/", "/", "s", "e", "t", "t", "i", "n", "g", "s">>),
          Url(<<>>), NullUrl}

\* A prefix test alone, as the popup's own check has it.
isRestrictedUrl_prefixes(url) ==
    \E prefix \in RESTRICTED_URL_PREFIXES : StartsWith(url.str, prefix)

\* if (!url) return true; RESTRICTED_URL_PREFIXES.some(p => url.startsWith(p))
isRestrictedUrl(url) ==
    IF url.null \/ url.str = <<>> THEN TRUE
    ELSE \E prefix \in RESTRICTED_URL_PREFIXES : StartsWith(url.str, prefix)

\* TabService.isRestrictedUrl is called with a url and returns.
CheckUrl(i, url) ==
    /\ Free(i, "isRestrictedUrl")
    /\ Put(i, [NewTask(i, "isRestrictedUrl", [url |-> url]) EXCEPT
                  !.pc = "done",
                  !.resp = [restricted |-> isRestrictedUrl(url)]])
    /\ UNCHANGED <<store, alarms, tabState, badge>>

InitUrls ==
    /\ store = InstalledStore
    /\ alarms = {}
    /\ tabState \in [TabIds -> {"open", "closed"}]
    /\ badge = <<>>
    /\ tasks = [i \in Slots |-> IdleTask]

NextUrls ==
    \/ \E url \in Urls : CheckUrl("a", url)
    \/ Forget("a")

SpecUrls == InitUrls /\ [][NextUrls]_vars

\* Cancelling: a tab has a schedule; setTimer(tabId, 0) requests are handled
\* in one slot while the timer fires and the extension is updated in the
\* other.
CancelRequests == {[action |-> "setTimer", tabId |-> RaceTab, interval |-> 0]}

InitCancel ==
    /\ \E n \in PosIntervals :
          /\ store = saveInterval(InstalledStore, RaceTab, n)
          /\ alarms = scheduleCreate({}, RaceTab, n)
    /\ tabState = [t \in TabIds |-> "open"]
    /\ badge = <<>>
    /\ tasks = [i \in Slots |-> IdleTask]

ResumeCancel(i) ==
    \/ SetTimerSaved(i)
    \/ SetTimerCleared(i)
    \/ BadgeOptions(i)
    \/ BadgeAlarms(i)
    \/ RestoreListed(i)
    \/ RestoreTabs(i)
    \/ RestoreCleared(i)
    \/ AlarmOptions(i)
    \/ AlarmReloaded(i)

NextCancel ==
    \/ \E req \in CancelRequests : HandleSetTimer("b", req)
    \/ \E alarm \in alarms : OnAlarm("a", alarm)
    \/ OnUpdated("a")
    \/ \E i \in Slots : ResumeCancel(i)
    \/ \E i \in Slots : Forget(i)

SpecCancel == InitCancel /\ [][NextCancel]_vars

\* The badge: every handler that ends with updateBadge, one handler at a
\* time, with showBadge switched off and on and an alarm of another name in
\* the registry.  The run starts as the extension is installed.
BadgePatches == {[showBadge |-> FALSE], [showBadge |-> TRUE]}

BadgeRequests ==
    {[action |-> "saveOptions", options |-> ObjectValue(o)] : o \in BadgePatches}

InitBadge ==
    /\ store = EmptyStore
    /\ alarms \in {{}, {StrayAlarm}}
    /\ tabState \in [TabIds -> {"open", "closed"}]
    /\ badge = <<>>
    /\ tasks = [i \in Slots |->
                 IF i = "a"
                 THEN [IdleTask EXCEPT !.kind = "onInstalled", !.pc = "so_get",
                                       !.req = [reason |-> "install"],
                                       !.opts = getOptions(EmptyStore)]
                 ELSE IdleTask]

NextBadge ==
    \/ \E req \in RaceRequests : HandleSetTimer("a", req)
    \/ \E req \in BadgeRequests : HandleSaveOptions("a", req)
    \/ \E req \in ImportRequests : HandleImportSettings("a", req)
    \/ \E alarm \in alarms : OnAlarm("a", alarm)
    \/ \E t \in TabIds : OnRemoved("a", t)
    \/ OnStartup("a")
    \/ OnUpdated("a")
    \/ Resume("a")
    \/ Forget("a")
    \/ \E t \in TabIds : Idle /\ CloseTab(t)

SpecBadge == InitBadge /\ [][NextBadge]_vars

\* A failed reload beside a new schedule: the tab has a schedule and its
\* timer; the timer fires once in one slot, a setTimer(tabId, n > 0) is
\* handled once in the other, and the tab closes at any moment without its
\* onRemoved event being delivered.  The steps of the two handlers interleave
\* freely.
PositiveRequests ==
    {[action |-> "setTimer", tabId |-> RaceTab, interval |-> n] : n \in PosIntervals}

InitCleanup ==
    /\ \E m \in PosIntervals :
          /\ store = saveInterval(InstalledStore, RaceTab, m)
          /\ alarms = scheduleCreate({}, RaceTab, m)
    /\ tabState \in [TabIds -> {"open", "closed"}]
    /\ badge = <<"1">>
    /\ tasks = [i \in Slots |-> IdleTask]

ResumeCleanup(i) ==
    \/ SetTimerSaved(i)
    \/ SetTimerCleared(i)
    \/ BadgeOptions(i)
    \/ BadgeAlarms(i)
    \/ AlarmOptions(i)
    \/ AlarmReloaded(i)
    \/ AlarmCleared(i)
    \/ AlarmRemoved(i)

NextCleanup ==
    \/ \E alarm \in alarms : tasks["a"].pc = "idle" /\ OnAlarm("a", alarm)
    \/ \E req \in PositiveRequests : tasks["b"].pc = "idle" /\ HandleSetTimer("b", req)
    \/ \E i \in Slots : ResumeCleanup(i)
    \/ CloseTab(RaceTab)

SpecCleanup == InitCleanup /\ [][NextCleanup]_vars

\* Two saveOptions requests and nothing else: each slot takes one request,
\* the first slot a patch of bypassCache and the second a patch of another
\* field, and the steps of the two handlers interleave freely.
SavePatches(i) ==
    IF i = "a" THEN CachePatches
    ELSE {[showBadge |-> FALSE], [defaultInterval |-> 20]}

SaveRequests(i) ==
    {[action |-> "saveOptions", options |-> ObjectValue(o)] : o \in SavePatches(i)}

ResumeSavePair(i) ==
    \/ SaveOptionsRead(i)
    \/ SaveOptionsWritten(i)
    \/ BadgeOptions(i)
    \/ BadgeAlarms(i)

NextSavePair ==
    \/ \E i \in Slots : \E req \in SaveRequests(i) :
          tasks[i].pc = "idle" /\ HandleSaveOptions(i, req)
    \/ \E i \in Slots : ResumeSavePair(i)

SpecSavePair == InitOptions /\ [][NextSavePair]_vars

\* An import beside another request: the tab has a schedule, its timer and
\* an Options Record; one importSettings of a document with an Options Record
\* and a schedule is handled in the first slot, and while it is in flight one
\* getTimer, getAllTimers, getOptions, exportSettings or setTimer is handled
\* in the second.  The steps of the two handlers interleave freely.
ImportedOptions == [defaultInterval |-> 5, bypassCache |-> TRUE, showBadge |-> FALSE]

ImportedDocuments ==
    {Spread([k \in {OPTIONS_KEY} |-> ImportedOptions],
            [k \in {getKey(t)} |-> [interval |-> MaxInterval]]) : t \in TabIds}

DocumentRequests ==
    {[action |-> "importSettings", data |-> ObjectValue(d)] : d \in ImportedDocuments}

InitImportRace ==
    /\ store = saveInterval(
                   StorageSet(EmptyStore,
                       [k \in {OPTIONS_KEY} |->
                           [DEFAULT_OPTIONS EXCEPT !.bypassCache = FALSE]]),
                   RaceTab, 1)
    /\ alarms = scheduleCreate({}, RaceTab, 1)
    /\ tabState = [t \in TabIds |-> IF t = RaceTab THEN "open" ELSE "closed"]
    /\ badge = <<"1">>
    /\ tasks = [i \in Slots |-> IdleTask]

\* importSettings is in flight in slot i.
Importing(i) ==
    tasks[i].kind = "importSettings" /\ tasks[i].pc \notin {"idle", "done"}

\* Slot j is empty while the import of slot i is in flight.
Beside(i, j) == Importing(i) /\ tasks[j].pc = "idle"

ResumeImport(i) ==
    \/ ImportListed(i)
    \/ ImportAlarmsCleared(i)
    \/ ImportStoreCleared(i)
    \/ ImportStoreSet(i)
    \/ RestoreListed(i)
    \/ RestoreTabs(i)
    \/ RestoreCleared(i)
    \/ RestoreRemoved(i)
    \/ BadgeOptions(i)
    \/ BadgeAlarms(i)

ResumeBeside(i) ==
    \/ GetAllListed(i)
    \/ GetAllTabs(i)
    \/ GetAllInfo(i)
    \/ SetTimerSaved(i)
    \/ SetTimerCleared(i)
    \/ BadgeOptions(i)
    \/ BadgeAlarms(i)

NextImportRace ==
    \/ \E req \in DocumentRequests : Idle /\ HandleImportSettings("a", req)
    \/ Beside("a", "b") /\ HandleGetTimer("b", [action |-> "getTimer", tabId |-> RaceTab])
    \/ Beside("a", "b") /\ HandleGetAllTimers("b")
    \/ Beside("a", "b") /\ HandleGetOptions("b")
    \/ Beside("a", "b") /\ HandleExportSettings("b")
    \/ \E req \in PositiveRequests : Beside("a", "b") /\ HandleSetTimer("b", req)
    \/ ResumeImport("a")
    \/ ResumeBeside("b")

SpecImportRace == InitImportRace /\ [][NextImportRace]_vars

\* A reconciliation pass over a stale snapshot: the tab has a schedule and its
\* timer and is open or not; an update or a restart runs the pass in the
\* first slot, and while the pass is suspended after its two reads (entries,
\* open tabs) and before its step for the tab, a setTimer for the tab or the
\* close of the tab with its onRemoved handler runs to completion in the
\* second slot.  Then the pass resumes.
Suspended(i) == tasks[i].pc = "rs_tabs"

Settled(j) == tasks[j].pc \in {"idle", "done"}

ResumeStale(j) ==
    \/ SetTimerSaved(j)
    \/ SetTimerCleared(j)
    \/ RemovedCleared(j)
    \/ RemovedRemoved(j)
    \/ BadgeOptions(j)
    \/ BadgeAlarms(j)

ResumePass(i, j) ==
    \/ Settled(j) /\ RestoreListed(i)
    \/ Settled(j) /\ RestoreTabs(i)
    \/ Settled(j) /\ RestoreCleared(i)
    \/ Settled(j) /\ RestoreRemoved(i)
    \/ Settled(j) /\ BadgeOptions(i)
    \/ Settled(j) /\ BadgeAlarms(i)

NextStale ==
    \/ OnUpdated("a")
    \/ OnStartup("a")
    \/ \E req \in RaceRequests :
          Suspended("a") /\ tasks["b"].pc = "idle" /\ HandleSetTimer("b", req)
    \/ Suspended("a") /\ tasks["b"].pc = "idle" /\ CloseTab(RaceTab)
    \/ Suspended("a") /\ OnRemoved("b", RaceTab)
    \/ ResumeStale("b")
    \/ ResumePass("a", "b")

SpecStale == InitCleanup /\ [][NextStale]_vars

\* ============================================================ properties
\* The timers named for a tab id, by the name the code derives and by the
\* name the code parses.
TimersOf(al, tabId) == {a \in al : a.name = getAlarmName(tabId)}

TimersParsedTo(al, tabId) == {a \in al : parseTabId(a.name) = Num(tabId)}

\* The schedule-prefixed keys holding an interval > 0, and the tab id
\* getAllIntervals reads from such a key.
PositiveKeys(st) ==
    {k \in DOMAIN st : /\ StartsWith(k, ALARM_NAME_PREFIX)
                       /\ Has(st[k], "interval")
                       /\ st[k].interval > 0}

KeyTab(k) == ParseInt(Substring(k, Len(ALARM_NAME_PREFIX)))

DoneTask(i, kind) == tasks[i].kind = kind /\ tasks[i].pc = "done"

C6_LastWriteWins ==
    (\A i \in Slots : DoneTask(i, "setTimer") /\ tasks[i].resp.success
                      /\ tasks[i].tabId = RaceTab)
        => /\ Cardinality(TimersOf(alarms, RaceTab)) <= 1
           /\ \E i \in Slots :
                 /\ getInterval(store, RaceTab) = tasks[i].interval
                 /\ TimersOf(alarms, RaceTab) =
                       scheduleCreate({}, RaceTab, tasks[i].interval)

\* ------------------------------------------------------------ C2
\* C2 as claimed: no schedule key ever holds an interval <= 0, and a
\* completed setTimer(tabId, 0) has deleted the key of tabId.
C2_NeverPersisted ==
    /\ \A k \in DOMAIN store :
          StartsWith(k, ALARM_NAME_PREFIX) /\ Has(store[k], "interval")
              => store[k].interval > 0
    /\ (DoneTask("a", "setTimer") /\ tasks["a"].resp.success
            /\ tasks["a"].interval = 0)
          => getKey(tasks["a"].tabId) \notin DOMAIN store

\* C2 amended: an entry with interval <= 0 is stored but is never a schedule:
\* getAllIntervals never lists it, and after setTimer(tabId, 0) has completed
\* the key of tabId holds {interval: 0}, getInterval(tabId) is 0 and no timer
\* is named for tabId.
C2_ZeroStoredNotListed ==
    /\ \A k \in DOMAIN getAllIntervals(store) :
          getAllIntervals(store)[k].interval > 0
    /\ (DoneTask("a", "setTimer") /\ tasks["a"].resp.success
            /\ tasks["a"].interval = 0)
          => /\ getKey(tasks["a"].tabId) \in DOMAIN store
             /\ store[getKey(tasks["a"].tabId)] = [interval |-> 0]
             /\ getInterval(store, tasks["a"].tabId) = 0
             /\ TimersParsedTo(alarms, tasks["a"].tabId) = {}

\* A setTimer(tabId, 0) has completed for a tab that had a schedule and a timer.
C2_Witness ==
    /\ DoneTask("a", "setTimer")
    /\ tasks["a"].resp.success
    /\ tasks["a"].interval = 0
    /\ getInterval(tasks["a"].pre.store, tasks["a"].tabId) > 0
    /\ TimersOf(tasks["a"].pre.alarms, tasks["a"].tabId) # {}

\* ------------------------------------------------------------ C3
\* C3 as claimed: after a reconciliation pass (startup or update) that began
\* with no alarm, the keys holding an interval > 0 are the prior ones whose
\* tab is open, and the timers are those of exactly these tabs, each with the
\* stored interval as its period.
C3_ReconcilePrunesAndArms ==
    \A i \in SeqSlots :
        (/\ tasks[i].pc = "done"
         /\ \/ tasks[i].kind = "onStartup"
            \/ tasks[i].kind = "onInstalled" /\ tasks[i].req.reason = "update"
         /\ tasks[i].pre.alarms = {})
        => LET pre == tasks[i].pre
               kept == {k \in PositiveKeys(pre.store) : KeyTab(k).val \in pre.open}
           IN  /\ PositiveKeys(store) = kept
               /\ \A k \in kept : store[k] = pre.store[k]
               /\ \A t \in TabIds :
                     TimersParsedTo(alarms, t) # {}
                        <=> \E k \in kept : KeyTab(k).val = t
               /\ \A k \in kept : \A a \in TimersParsedTo(alarms, KeyTab(k).val) :
                     a.periodInMinutes = store[k].interval

\* ------------------------------------------------------------ C4
\* C4: when the reload of a fired timer's tab has thrown and the handler has
\* completed, getInterval(tabId) is 0 and no timer is named for tabId.
C4_ReloadFailureCleansUp ==
    \A i \in SeqSlots :
        (DoneTask(i, "onAlarm") /\ tasks[i].reload.tried /\ ~tasks[i].reload.ok)
        => /\ getInterval(store, tasks[i].tabId) = 0
           /\ TimersParsedTo(alarms, tasks[i].tabId) = {}

\* The failed reload was that of a scheduled tab.
C4_Witness ==
    /\ DoneTask("a", "onAlarm")
    /\ tasks["a"].reload.tried
    /\ ~tasks["a"].reload.ok
    /\ getInterval(tasks["a"].pre.store, tasks["a"].tabId) > 0
    /\ TimersOf(tasks["a"].pre.alarms, tasks["a"].tabId) # {}

C7_IdempotentClear ==
    \A i \in SeqSlots :
        (DoneTask(i, "setTimer") /\ tasks[i].resp.success /\ tasks[i].interval = 0)
        => /\ getInterval(store, tasks[i].tabId) = 0
           /\ TimersParsedTo(alarms, tasks[i].tabId) = {}
           /\ tasks[i].again =>
                 /\ store = tasks[i].pre.store
                 /\ alarms = tasks[i].pre.alarms
                 /\ badge = tasks[i].pre.badge

\* The second of two setTimer(tabId, 0) in a row has completed.
C7_Witness ==
    /\ DoneTask("a", "setTimer")
    /\ tasks["a"].resp.success
    /\ tasks["a"].interval = 0
    /\ tasks["a"].again

\* ------------------------------------------------------------ C8
\* C8: when the imported document is what exportAll returns in the state the
\* import starts in, the store after importAll (clear, then set) is the store
\* before it: every schedule entry and the options record are as they were.
C8_ExportImportRoundTrip ==
    \A i \in SeqSlots :
        (/\ tasks[i].kind = "importSettings"
         /\ tasks[i].pc = "im_set"
         /\ tasks[i].data = exportAll(tasks[i].pre.store))
        => store = tasks[i].pre.store

\* importAll has run on an exported document that holds a schedule entry and
\* the options record.
C8_Witness ==
    /\ tasks["a"].kind = "importSettings"
    /\ tasks["a"].pc = "im_set"
    /\ tasks["a"].data = exportAll(tasks["a"].pre.store)
    /\ OPTIONS_KEY \in DOMAIN tasks["a"].pre.store
    /\ PositiveKeys(tasks["a"].pre.store) # {}

\* ------------------------------------------------------------ C9
\* C9 as claimed: after importSettings(data) the timers are exactly those of
\* the open tabs with an entry > 0 in data, each with the imported interval as
\* its period, and the imported entries of tabs that are not open are deleted.
C9_ImportReplacesTimers ==
    \A i \in SeqSlots :
        (DoneTask(i, "importSettings") /\ tasks[i].resp.success)
        => LET data == tasks[i].data
               armed == {k \in PositiveKeys(data) : KeyTab(k).val \in tasks[i].pre.open}
           IN  /\ \A t \in TabIds :
                     TimersParsedTo(alarms, t) # {}
                        <=> \E k \in armed : KeyTab(k).val = t
               /\ \A k \in armed : \A a \in TimersParsedTo(alarms, KeyTab(k).val) :
                     a.periodInMinutes = data[k].interval
               /\ PositiveKeys(store) = armed

\* ------------------------------------------------------------ C10
\* C10: after importAll(bundle) (clear, then set) the store is the bundle:
\* prior keys outside it are gone and unrecognised keys are stored as given.
C10_ImportAllReplaces ==
    \A i \in SeqSlots :
        (tasks[i].kind = "importSettings" /\ tasks[i].pc = "im_set")
        => store = tasks[i].data

\* importAll has replaced a store holding other keys by a bundle holding an
\* unrecognised key.
C10_Witness ==
    /\ tasks["a"].kind = "importSettings"
    /\ tasks["a"].pc = "im_set"
    /\ UnknownKey \in DOMAIN tasks["a"].data
    /\ DOMAIN tasks["a"].pre.store \ DOMAIN tasks["a"].data # {}

\* ------------------------------------------------------------ C11
\* C11: when the onRemoved handler of tabId has completed, no timer is named
\* for tabId, the key of tabId is not in the store (getInterval is 0), and
\* every other key and every other timer is as it was when the handler began.
C11_TabCloseCleansUp ==
    \A i \in SeqSlots :
        DoneTask(i, "onRemoved")
        => LET t == tasks[i].tabId
               pre == tasks[i].pre
           IN  /\ TimersOf(alarms, t) = {}
               /\ TimersParsedTo(alarms, t) = {}
               /\ getKey(t) \notin DOMAIN store
               /\ getInterval(store, t) = 0
               /\ DOMAIN store = DOMAIN pre.store \ {getKey(t)}
               /\ \A k \in DOMAIN store : store[k] = pre.store[k]
               /\ alarms = pre.alarms \ TimersOf(pre.alarms, t)

\* The closed tab had an entry and a timer, and so had another tab.
C11_Witness ==
    /\ DoneTask("a", "onRemoved")
    /\ getInterval(tasks["a"].pre.store, tasks["a"].tabId) > 0
    /\ TimersOf(tasks["a"].pre.alarms, tasks["a"].tabId) # {}
    /\ \E u \in TabIds \ {tasks["a"].tabId} :
          /\ getInterval(store, u) > 0
          /\ TimersOf(alarms, u) # {}

\* ------------------------------------------------------------ C12
\* C12 as claimed: when one element of a reconciliation pass has failed, every
\* other element has still been processed once the pass is over: the timer of
\* each other open tab is armed and the entry of each other orphan is deleted.
C12_FailureIsolated ==
    \A i \in SeqSlots :
        (tasks[i].pc = "done" /\ tasks[i].failed)
        => \A key \in DOMAIN tasks[i].entries \ {tasks[i].cur} :
              LET e == tasks[i].entries[key]
              IN  IF e.tabId \in tasks[i].openIds
                  THEN \E a \in TimersOf(alarms, e.tabId) :
                          a.periodInMinutes = e.interval
                  ELSE key \notin DOMAIN store

\* ------------------------------------------------------------ C13
\* C13 as claimed: a setTimer request without tabId, without interval or with
\* a negative interval is answered {success: false, error} and leaves the
\* store and the alarms as they were.
C13_MalformedRejected ==
    \A i \in SeqSlots :
        (/\ DoneTask(i, "setTimer")
         /\ \/ ~Has(tasks[i].req, "tabId")
            \/ ~Has(tasks[i].req, "interval")
            \/ tasks[i].req.interval < 0)
        => /\ ~tasks[i].resp.success
           /\ Has(tasks[i].resp, "error")
           /\ store = tasks[i].pre.store
           /\ alarms = tasks[i].pre.alarms

\* ------------------------------------------------------------ C14
\* C14 as claimed: an importSettings request whose data is missing or is not
\* a key-value document (a string, an array) is answered {success: false,
\* error} and changes neither the store nor the alarms.
C14_MalformedImportRejected ==
    \A i \in SeqSlots :
        (/\ DoneTask(i, "importSettings")
         /\ \/ ~Has(tasks[i].req, "data")
            \/ tasks[i].req.data.type # "object"
            \/ Has(tasks[i].req.data, "array"))
        => /\ ~tasks[i].resp.success
           /\ Has(tasks[i].resp, "error")
           /\ store = tasks[i].pre.store
           /\ alarms = tasks[i].pre.alarms

\* ------------------------------------------------------------ C15
\* C15: every answered request of the seven actions has a structured answer,
\* {success: true, ...} or {success: false, error}, also when a call of the
\* handler has failed; and a request that is not answered yet has a handler
\* that can take its next step.
C15_StructuredResponse ==
    \A i \in SeqSlots :
        /\ (tasks[i].kind \in MessageKinds /\ tasks[i].pc = "done")
              => /\ Has(tasks[i].resp, "success")
                 /\ tasks[i].resp.success \in BOOLEAN
                 /\ ~tasks[i].resp.success => Has(tasks[i].resp, "error")
        /\ (tasks[i].kind \in MessageKinds /\ tasks[i].pc # "done")
              => ENABLED ResumeMessages(i)

\* A handler that failed part-way (the store written, the alarm not yet
\* touched) has answered with an error.
C15_Witness ==
    /\ DoneTask("a", "setTimer")
    /\ tasks["a"].failed
    /\ ~tasks["a"].resp.success
    /\ store # tasks["a"].pre.store

\* ------------------------------------------------------------ C16
\* C16: once saveOptions(p) has written, the stored Options Record has p's
\* value in every field p names and, in every other field, the value stored
\* before (the default when the field was not stored); the other keys of the
\* store are untouched.
C16_SaveOptionsMerges ==
    \A i \in SeqSlots :
        (/\ tasks[i].kind = "saveOptions"
         /\ tasks[i].pc \in {"so_set", "done"}
         /\ ~NotAnObject(tasks[i].req, "options"))
        => LET p == tasks[i].req.options.val
               before == tasks[i].pre.store
               old == IF OPTIONS_KEY \in DOMAIN before
                      THEN before[OPTIONS_KEY] ELSE EmptyObject
           IN  /\ OPTIONS_KEY \in DOMAIN store
               /\ \A f \in DOMAIN p :
                     Has(store[OPTIONS_KEY], f) /\ store[OPTIONS_KEY][f] = p[f]
               /\ \A f \in DOMAIN DEFAULT_OPTIONS \ DOMAIN p :
                     /\ Has(store[OPTIONS_KEY], f)
                     /\ store[OPTIONS_KEY][f] =
                           IF Has(old, f) THEN old[f] ELSE DEFAULT_OPTIONS[f]
               /\ \A k \in DOMAIN before \ {OPTIONS_KEY} :
                     k \in DOMAIN store /\ store[k] = before[k]

\* The document {defaultInterval: 10, bypassCache: true, showBadge: false} was
\* stored and saveOptions({defaultInterval: 20}) has completed.
C16_Witness ==
    /\ DoneTask("a", "saveOptions")
    /\ tasks["a"].resp.success
    /\ tasks["a"].req.options.val = [defaultInterval |-> 20]
    /\ OPTIONS_KEY \in DOMAIN tasks["a"].pre.store
    /\ tasks["a"].pre.store[OPTIONS_KEY] =
          [defaultInterval |-> 10, bypassCache |-> TRUE, showBadge |-> FALSE]
    /\ store[OPTIONS_KEY] =
          [defaultInterval |-> 20, bypassCache |-> TRUE, showBadge |-> FALSE]

\* ------------------------------------------------------------ C17
\* C17: in every reachable store, with or without an Options Record,
\* getOptions returns a record with the three fields, each one the stored
\* value or, when the field is not stored, the default; and a getOptions
\* request is answered {success: true, options} with that record.
C17_GetOptionsMerges ==
    LET stored == IF OPTIONS_KEY \in DOMAIN store THEN store[OPTIONS_KEY]
                  ELSE EmptyObject
        o == getOptions(store)
    IN  /\ DOMAIN DEFAULT_OPTIONS \subseteq DOMAIN o
        /\ \A f \in DOMAIN DEFAULT_OPTIONS :
              Has(o, f) /\ o[f] = IF Has(stored, f) THEN stored[f]
                                  ELSE DEFAULT_OPTIONS[f]
        /\ \A i \in SeqSlots :
              DoneTask(i, "getOptions")
              => /\ tasks[i].resp.success
                 /\ tasks[i].resp.options = o

\* getOptions has answered with the defaults after an import of a document
\* without Options Record.
C17_Witness ==
    /\ DoneTask("a", "getOptions")
    /\ OPTIONS_KEY \notin DOMAIN store
    /\ store # EmptyStore
    /\ tasks["a"].resp.options =
          [defaultInterval |-> 5, bypassCache |-> TRUE, showBadge |-> TRUE]

\* ------------------------------------------------------------ C18
\* C18: for any store content, getAllIntervals returns one {tabId, interval}
\* element for each key made of the schedule prefix and a tab id whose value
\* has an interval > 0, with the tab id read from the key and that interval,
\* and nothing else: no element for a value with interval 0, a negative
\* interval or none, for the Options Record, for a key without the prefix
\* (whatever its value) or for a prefixed key no tab id can be read from.
C18_ListingExcludesNonSchedules ==
    LET l == getAllIntervals(StorageGetAll(store))
    IN  /\ DOMAIN l = {k \in PositiveKeys(store) : ~KeyTab(k).nan}
        /\ \A k \in DOMAIN l :
              l[k] = [tabId |-> KeyTab(k).val, interval |-> store[k].interval]
        /\ \A k \in DOMAIN store :
              (\/ ~StartsWith(k, ALARM_NAME_PREFIX)
               \/ ~Has(store[k], "interval")
               \/ store[k].interval <= 0) => k \notin DOMAIN l
        /\ OPTIONS_KEY \notin DOMAIN l
        /\ UnknownKey \notin DOMAIN l
        /\ \A i \in SeqSlots :
              tasks[i].pc = "ga_list" => tasks[i].entries = l

\* The listing was taken of a store with a schedule of tab 1, an entry of
\* interval 0, an entry without interval, the Options Record and an
\* unrelated key holding an interval, and it has the one element of tab 1.
C18_Witness ==
    /\ tasks["a"].pc = "ga_list"
    /\ DOMAIN store = {getKey(1), getKey(2), PaddedKey, OPTIONS_KEY, UnknownKey}
    /\ store[getKey(1)] = [interval |-> MaxInterval]
    /\ store[getKey(2)] = [interval |-> 0]
    /\ store[PaddedKey] = EmptyObject
    /\ store[UnknownKey] = [interval |-> MaxInterval]
    /\ tasks["a"].entries =
          [k \in {getKey(1)} |-> [tabId |-> 1, interval |-> MaxInterval]]

\* ------------------------------------------------------------ C19
\* Whether the key of a tab holds an interval, and the interval it holds.
Present(st, t) == getKey(t) \in DOMAIN st /\ Has(st[getKey(t)], "interval")

Value(st, t) == IF Present(st, t) THEN st[getKey(t)].interval ELSE 0

C20_ListsOnlyOpenTabs ==
    \A i \in SeqSlots :
        /\ tasks[i].pc \in {"ga_list", "ga_tabs", "ga_info"}
           => ENABLED (GetAllListed(i) \/ GetAllTabs(i) \/ GetAllInfo(i))
        /\ DoneTask(i, "getAllTimers")
           => LET t == tasks[i]
                  items == t.resp.timers
              IN  /\ t.resp.success
                  /\ t.openIds \subseteq t.pre.open
                  /\ DOMAIN items =
                        {k \in PositiveKeys(t.pre.store) :
                            ~KeyTab(k).nan /\ KeyTab(k).val \in t.openIds}
                  /\ \A k \in DOMAIN items :
                        /\ items[k].tabId = KeyTab(k).val
                        /\ items[k].tabId \in t.pre.open
                        /\ items[k].interval = t.pre.store[k].interval
                        /\ items[k].title \in
                              {Or(TabObject(items[k].tabId).title,
                                  FallbackTitle(items[k].tabId)),
                               FallbackTitle(items[k].tabId)}
                        /\ items[k].title # <<>>
                        /\ items[k].url \in {TabObject(items[k].tabId).url, <<>>}
                        /\ tabState[items[k].tabId] = "open"
                           => /\ items[k].title =
                                    Or(TabObject(items[k].tabId).title,
                                       FallbackTitle(items[k].tabId))
                              /\ items[k].url = TabObject(items[k].tabId).url

\* getAllTimers has answered while one scheduled tab was closed from the
\* start and has no item, and another, which has a title, closed after the
\* open tabs were read: its item has the title 'Tab 1' and the url ''.
C20_Witness ==
    /\ DoneTask("a", "getAllTimers")
    /\ tasks["a"].resp.success
    /\ getKey(1) \in DOMAIN tasks["a"].resp.timers
    /\ tasks["a"].resp.timers[getKey(1)].title = FallbackTitle(1)
    /\ tasks["a"].resp.timers[getKey(1)].url = <<>>
    /\ \E u \in TabIds \ {1} :
          /\ getInterval(tasks["a"].pre.store, u) > 0
          /\ u \notin tasks["a"].pre.open
          /\ getKey(u) \notin DOMAIN tasks["a"].resp.timers

\* ------------------------------------------------------------ C21
\* C21: schedule(tabId, n), as setTimer and the reconciliation loop call it,
\* first cancels the timer named for tabId (none is left when its clear has
\* run); when it has returned and n > 0 there is exactly one timer named for
\* tabId, with delay n and period n; when n <= 0 there is none and none was
\* created; the timers of other names are as they were.
C21_ScheduleReplaces ==
    \A i \in SeqSlots :
        LET t == tasks[i]
            name == ALARM_NAME_PREFIX \o StringOf(t.tabId)
            others == {a \in t.pre.alarms : a.name # name}
            mine == {a \in alarms : a.name = name}
        IN  /\ (t.kind = "setTimer" /\ t.pc = "st_clear") => mine = {}
            /\ (t.kind \in {"onStartup", "onInstalled", "importSettings"}
                    /\ t.pc = "rs_clear")
                  => TimersOf(alarms, t.entries[t.cur].tabId) = {}
            /\ (t.kind = "setTimer" /\ t.tabId # 0
                    /\ t.pc \notin {"st_save", "st_clear"})
                  => /\ alarms \ mine = others
                     /\ t.interval > 0
                           => /\ Cardinality(mine) = 1
                              /\ mine = {[name |-> name,
                                          delayInMinutes |-> t.interval,
                                          periodInMinutes |-> t.interval]}
                     /\ t.interval <= 0 => mine = {}

\* setTimer has completed for a tab whose timer had another period: the one
\* timer of the tab has the new delay and period.
C21_Witness ==
    /\ DoneTask("a", "setTimer")
    /\ tasks["a"].resp.success
    /\ tasks["a"].interval = MaxInterval
    /\ \E a \in TimersOf(tasks["a"].pre.alarms, tasks["a"].tabId) :
          a.periodInMinutes # MaxInterval
    /\ TimersOf(alarms, tasks["a"].tabId) =
          {[name |-> getAlarmName(tasks["a"].tabId),
            delayInMinutes |-> MaxInterval, periodInMinutes |-> MaxInterval]}

\* ------------------------------------------------------------ C22
\* The tab has a schedule: an entry with an interval > 0 and a timer.
Scheduled(t) ==
    /\ Present(store, t)
    /\ Value(store, t) > 0
    /\ TimersOf(alarms, t) # {}

\* The tab is open and no setTimer request is being handled or answered.
Undisturbed(t) == tabState[t] = "open" /\ tasks["a"].kind # "setTimer"

\* chrome.tabs.reload has been called for the tab and resolves.
Reloading(t) ==
    /\ tasks["a"].pc = "fa_reload"
    /\ tasks["a"].reload.tabId = t
    /\ tasks["a"].reload.ok

\* C22: from any state in which a tab has an entry with interval > 0 and a
\* timer, if the tab stays open and no setTimer is handled from then on, then
\* under fair timer firing the tab is reloaded again and again and it keeps
\* its entry and its timer; and no step of a fire handler whose reload
\* succeeds changes the store or the timers (nothing is rescheduled).
C22_RecurringReload ==
    /\ \A t \in TabIds :
          [](Scheduled(t) => ([]Undisturbed(t)
                                => ([]<>Reloading(t) /\ []Scheduled(t))))
    /\ [][(/\ tasks'["a"].kind = "onAlarm"
           /\ tasks'["a"] # tasks["a"]
           /\ \/ tasks'["a"].pc \in {"fa_opts", "fa_reload"}
              \/ tasks["a"].pc = "fa_reload" /\ tasks["a"].reload.ok)
          => (alarms' = alarms /\ store' = store)]_vars

\* The timer of a tab has fired a second time in a row, the tab is being
\* reloaded, and its entry and timer are those setTimer left.
C22_Witness ==
    /\ Reloading(RaceTab)
    /\ tasks["a"].again
    /\ Scheduled(RaceTab)
    /\ TimersOf(alarms, RaceTab) = TimersOf(tasks["a"].pre.alarms, RaceTab)

\* ------------------------------------------------------------ C23
\* Neither a timer nor an entry is left for the tab.
Removed(t) == TimersOf(alarms, t) = {} /\ getKey(t) \notin DOMAIN store

\* C23: when a tab that has a timer and an entry is closed and its onRemoved
\* event is never delivered, then, if no setTimer is handled from then on,
\* under fair timer firing the timer and the entry are removed and stay
\* removed; and whenever the tab has neither timer nor entry, it is a step of
\* a setTimer handler that gives it one again.
C23_SelfHealing ==
    /\ \A t \in TabIds :
          []((tabState[t] = "closing" /\ Scheduled(t))
                => ([](tasks["a"].kind # "setTimer") => <>[]Removed(t)))
    /\ [][\A t \in TabIds :
             (Removed(t) /\ ~Removed(t)')
                => (tasks'["a"].kind = "setTimer" /\ tasks'["a"].tabId = t)]_vars

\* The timer of a closed tab has fired, the reload was rejected and the
\* handler has removed the timer and the entry the tab had.
C23_Witness ==
    /\ DoneTask("a", "onAlarm")
    /\ tasks["a"].reload.tried
    /\ ~tasks["a"].reload.ok
    /\ tabState[tasks["a"].tabId] = "closing"
    /\ TimersOf(tasks["a"].pre.alarms, tasks["a"].tabId) # {}
    /\ getInterval(tasks["a"].pre.store, tasks["a"].tabId) > 0
    /\ Removed(tasks["a"].tabId)

\* ------------------------------------------------------------ C24
\* The suffix of a name is the decimal rendering of an integer: an optional
\* minus sign and digits, nothing else.
Decimal(suffix) ==
    LET body == IF suffix # <<>> /\ Head(suffix) = "-" THEN Tail(suffix) ELSE suffix
    IN  body # <<>> /\ \A k \in 1..Len(body) : IsDigit(body[k])

\* C24 as claimed: parseTabId(getAlarmName(tabId)) is tabId for every tab id;
\* every name parseTabId reads a tab id t from is getAlarmName(t); and a name
\* without the prefix, without suffix or with a suffix that is not a decimal
\* number gives null.
C24_NameReversible ==
    /\ \A t \in NameIds : parseTabId(getAlarmName(t)) = Num(t)
    /\ \A a \in alarms :
          /\ ~parseTabId(a.name).nan
                => getAlarmName(parseTabId(a.name).val) = a.name
          /\ (\/ ~StartsWith(a.name, ALARM_NAME_PREFIX)
              \/ ~Decimal(Substring(a.name, Len(ALARM_NAME_PREFIX))))
                => parseTabId(a.name).nan

\* ------------------------------------------------------------ C25
\* C25 as claimed: isRestrictedUrl(url) is true if and only if url starts
\* with one of the fixed prefixes.
C25_RestrictedIffPrefix ==
    \A i \in SeqSlots :
        DoneTask(i, "isRestrictedUrl")
        => (tasks[i].resp.restricted
              <=> \E prefix \in RESTRICTED_URL_PREFIXES :
                     /\ ~tasks[i].req.url.null
                     /\ StartsWith(tasks[i].req.url.str, prefix))

\* C25 amended: isRestrictedUrl(url) is true if and only if url is null,
\* undefined or the empty string, or starts with one of the fixed prefixes
\* (at its first character, in the prefix's own case); the call changes
\* nothing.
C25_RestrictedIffEmptyOrPrefix ==
    \A i \in SeqSlots :
        DoneTask(i, "isRestrictedUrl")
        => LET url == tasks[i].req.url
           IN  /\ tasks[i].resp.restricted
                     <=> \/ url.null
                         \/ Len(url.str) = 0
                         \/ \E prefix \in RESTRICTED_URL_PREFIXES :
                               /\ Len(url.str) >= Len(prefix)
                               /\ \A k \in 1..Len(prefix) : url.str[k] = prefix[k]
               /\ store = tasks[i].pre.store
               /\ alarms = tasks[i].pre.alarms
               /\ badge = tasks[i].pre.badge

\* isRestrictedUrl has answered true for the empty url.
C25_Witness ==
    /\ DoneTask("a", "isRestrictedUrl")
    /\ tasks["a"].req.url = Url(<<>>)
    /\ tasks["a"].resp.restricted

\* ------------------------------------------------------------ C26
\* setTimer(t, 0) has completed: the entry of the tab holds interval 0 and no
\* setTimer handler is running.
Cancelled(t) ==
    /\ Present(store, t)
    /\ Value(store, t) = 0
    /\ \A i \in Slots : tasks[i].kind = "setTimer" => tasks[i].pc = "done"

\* A timer-fire event for the tab is delivered in this step.
Delivered(i, t) ==
    /\ tasks[i].pc \in {"idle", "done"}
    /\ tasks'[i].kind = "onAlarm"
    /\ tasks'[i].pc = "fa_opts"
    /\ tasks'[i].tabId = t

\* C26 as claimed: once setTimer(tabId, 0) has completed, and while no
\* positive schedule is set again, no timer-fire event for tabId is
\* delivered; a fire handler already in flight may still reload the tab.
C26_NoFireAfterCancel ==
    [][\A t \in TabIds : \A i \in Slots : Cancelled(t) => ~Delivered(i, t)]_vars

\* ------------------------------------------------------------ C27
\* C27: while a fire handler whose reload succeeds runs, and when it has
\* returned, the store (schedule entries and Options Record), the timer
\* registry and the badge are what they were when the timer fired.
C27_SuccessfulReloadFrame ==
    \A i \in SeqSlots :
        (/\ tasks[i].kind = "onAlarm"
         /\ tasks[i].pc \in {"fa_opts", "fa_reload", "done"}
         /\ tasks[i].pc = "fa_reload" => tasks[i].reload.ok
         /\ tasks[i].pc = "done" => (tasks[i].reload.tried /\ tasks[i].reload.ok))
        => /\ store = tasks[i].pre.store
           /\ alarms = tasks[i].pre.alarms
           /\ badge = tasks[i].pre.badge

\* A fire handler has returned after a successful reload of a tab that has an
\* entry and a timer.
C27_Witness ==
    /\ DoneTask("a", "onAlarm")
    /\ tasks["a"].reload.tried
    /\ tasks["a"].reload.ok
    /\ getInterval(store, tasks["a"].tabId) > 0
    /\ TimersOf(alarms, tasks["a"].tabId) # {}
    /\ OPTIONS_KEY \in DOMAIN store

\* ------------------------------------------------------------ C28
\* C28: every reload a fire handler attempts is called with the bypassCache
\* of the Options Record stored when the timer fired, and with true when the
\* store has no Options Record or the record has no bypassCache.
C28_ReloadHonoursBypassCache ==
    \A i \in SeqSlots :
        (tasks[i].kind = "onAlarm" /\ tasks[i].reload.tried)
        => LET before == tasks[i].pre.store
           IN  /\ tasks[i].reload.tabId = tasks[i].tabId
               /\ tasks[i].reload.bypassCache =
                     IF OPTIONS_KEY \in DOMAIN before
                            /\ Has(before[OPTIONS_KEY], "bypassCache")
                     THEN before[OPTIONS_KEY].bypassCache
                     ELSE TRUE

\* A saveOptions({bypassCache: false}) has completed, the timer has fired
\* after it and the reload is called without cache bypass.
C28_Witness ==
    /\ tasks["a"].kind = "onAlarm"
    /\ tasks["a"].pc = "fa_reload"
    /\ tasks["a"].reload.tried
    /\ ~tasks["a"].reload.bypassCache
    /\ OPTIONS_KEY \in DOMAIN tasks["a"].pre.store
    /\ ~tasks["a"].pre.store[OPTIONS_KEY].bypassCache

\* ------------------------------------------------------------ C29
\* What the name of an alarm reads as: the suffix after the prefix as
\* parseInt reads it, nothing for a name without the prefix.
NameReads(name) ==
    IF StartsWith(name, ALARM_NAME_PREFIX)
    THEN ParseInt(Substring(name, Len(ALARM_NAME_PREFIX)))
    ELSE NaN

\* C29: a fire handler attempts at most one reload (the attempt is made by
\* the one step that follows the read of the options), the attempt targets
\* the tab id read from the fired alarm's name, which for the name derived
\* from a tab id is that tab id, and a fired alarm from whose name no tab id
\* is read ends the handler at once: no reload, and the store, the alarms
\* and the badge are unchanged.
C29_NoStrayTriggers ==
    /\ [](\A i \in SeqSlots :
             tasks[i].kind = "onAlarm"
             => LET t == tasks[i]
                    read == NameReads(t.req.name)
                IN  /\ read.nan
                       => /\ t.pc = "done"
                          /\ ~t.reload.tried
                          /\ store = t.pre.store
                          /\ alarms = t.pre.alarms
                          /\ badge = t.pre.badge
                    /\ t.reload.tried
                       => /\ ~read.nan
                          /\ t.reload.tabId = read.val
                          /\ \A u \in NameIds :
                                t.req.name = ALARM_NAME_PREFIX \o StringOf(u)
                                   => t.reload.tabId = u)
    /\ [][\A i \in SeqSlots :
             (tasks'[i].reload.tried /\ tasks'[i].reload # tasks[i].reload)
             => /\ tasks[i].kind = "onAlarm"
                /\ tasks[i].pc = "fa_opts"
                /\ ~tasks[i].reload.tried
                /\ tasks'[i].kind = "onAlarm"]_vars

\* An alarm whose name has no tab id has fired beside the alarm of a tab:
\* the handler has returned without reload.
C29_Witness ==
    /\ DoneTask("a", "onAlarm")
    /\ tasks["a"].req.name = StrayAlarm.name
    /\ ~tasks["a"].reload.tried
    /\ \E t \in TabIds : TimersOf(alarms, t) # {}

\* ------------------------------------------------------------ C30
\* A reconciliation pass is running or has run in the slot, and the store it
\* started from: the store at onStartup or at the update, and the imported
\* document for the pass that follows an import.
Reconciling(i) ==
    \/ tasks[i].kind = "onStartup"
    \/ tasks[i].kind = "onInstalled" /\ tasks[i].req = [reason |-> "update"]
    \/ /\ tasks[i].kind = "importSettings"
       /\ tasks[i].pc \in {"rs_list", "rs_tabs", "rs_clear", "rs_remove",
                           "bg_opts", "bg_alarms", "done"}
       /\ ~NotAnObject(tasks[i].req, "data")

PassBase(i) ==
    IF tasks[i].kind = "importSettings" THEN tasks[i].data ELSE tasks[i].pre.store

\* C30: during and after a reconciliation pass every key of the store was in
\* the store the pass started from, with the identical value (an entry is
\* kept with its interval or deleted, none is written), and the Options
\* Record and every key that is not a schedule key are kept as they were.
C30_ReconcileArmOrDelete ==
    \A i \in SeqSlots :
        Reconciling(i)
        => LET base == PassBase(i)
           IN  /\ \A k \in DOMAIN store : k \in DOMAIN base /\ store[k] = base[k]
               /\ \A k \in DOMAIN base :
                     ~StartsWith(k, ALARM_NAME_PREFIX) => k \in DOMAIN store

\* A pass at startup has returned: it has deleted the entry of a closed tab
\* and kept the entry of an open tab with its interval, beside the options.
C30_Witness ==
    /\ DoneTask("a", "onStartup")
    /\ OPTIONS_KEY \in DOMAIN store
    /\ \E t \in TabIds : \E u \in TabIds :
          /\ getKey(t) \in DOMAIN tasks["a"].pre.store
          /\ getKey(t) \notin DOMAIN store
          /\ getKey(u) \in DOMAIN store
          /\ getInterval(store, u) > 0
          /\ TimersOf(alarms, u) # {}

\* The tab ids listAll() returns from a store, and the keys it lists under a
\* tab id.
ListedUnder(st, tabId) ==
    {k \in DOMAIN getAllIntervals(StorageGetAll(st)) :
        getAllIntervals(StorageGetAll(st))[k].tabId = tabId}

\* C31: at most one Schedule Entry per tabId.  In every state listAll() holds
\* no two pairs with the same tabId, and when a handler has just removed the
\* entry of a tabId (tab close, fire-failure cleanup) no entry lists under
\* that tabId.
C31_OneEntryPerTab ==
    /\ \A t \in TabIds : Cardinality(ListedUnder(store, t)) <= 1
    /\ \A i \in SeqSlots :
          tasks[i].pc \in {"rm_remove", "fa_remove"}
          => ListedUnder(store, tasks[i].tabId) = {}

\* The handlers that end with updateBadge: the control actions, tab close,
\* the cleanup after a failed reload, startup and install / update.
BadgeUpdater(i) ==
    \/ tasks[i].kind \in {"setTimer", "saveOptions", "importSettings",
                          "onRemoved", "onStartup", "onInstalled"}
    \/ tasks[i].kind = "onAlarm" /\ tasks[i].reload.tried /\ ~tasks[i].reload.ok

\* The live timers whose name has the schedule prefix.
LiveTimers == {a \in alarms : StartsWith(a.name, ALARM_NAME_PREFIX)}

\* C32: the badge tracks the live timers.  When a handler that updates the
\* badge has completed and no other handler is in flight, the badge text is
\* the decimal count of the live schedule timers if showBadge is true and the
\* count is > 0, and the empty string otherwise; alarms of other names are
\* not counted.
C32_BadgeTracksTimers ==
    \A i \in SeqSlots :
        (tasks[i].pc = "done" /\ BadgeUpdater(i) /\ Quiescent)
        => badge = IF getOptions(store).showBadge /\ Cardinality(LiveTimers) > 0
                   THEN StringOf(Cardinality(LiveTimers))
                   ELSE <<>>

\* A setTimer has completed with a schedule timer and an alarm of another
\* name live: the badge shows 1.
C32_Witness ==
    /\ DoneTask("a", "setTimer")
    /\ StrayAlarm \in alarms
    /\ Cardinality(LiveTimers) = 1
    /\ getOptions(store).showBadge
    /\ badge = <<"1">>

\* A setTimer request that passes the validation of handleSetTimer.
ValidSetTimer(req) ==
    req.action = "setTimer" /\ Has(req, "tabId") /\ Has(req, "interval") /\ req.tabId # 0

\* The store without the key of a tab, and the registry without the timer
\* named for it.
StoreBut(st, tabId) == [k \in DOMAIN st \ {getKey(tabId)} |-> st[k]]

AlarmsBut(al, tabId) == {a \in al : a.name # getAlarmName(tabId)}

\* C33: setTimer is scoped to its tab.  From its start to its response a
\* setTimer(tabId, n) leaves every key of the store but the key of tabId (the
\* Options Record included) and every timer but the timer of tabId as they
\* were; and when its store write fails the response is {success: false,
\* error} and the store and the registry are as they were.
C33_SetTimerScoped ==
    /\ [](\A i \in SeqSlots :
            (tasks[i].kind = "setTimer" /\ ValidSetTimer(tasks[i].req))
            => /\ StoreBut(store, tasks[i].req.tabId)
                    = StoreBut(tasks[i].pre.store, tasks[i].req.tabId)
               /\ AlarmsBut(alarms, tasks[i].req.tabId)
                    = AlarmsBut(tasks[i].pre.alarms, tasks[i].req.tabId))
    /\ [][\A req \in CallingRequests :
            (req.action = "setTimer" /\ FirstCallRejects("a", req))
            => /\ tasks'["a"].pc = "done"
               /\ tasks'["a"].resp.success = FALSE
               /\ Has(tasks'["a"].resp, "error")
               /\ store' = store
               /\ alarms' = alarms]_vars

\* setTimer(1, n) has completed and changed the entry of tab 1, while tab 2
\* has its entry and its timer as before and the Options Record is stored.
C33_Witness ==
    /\ DoneTask("a", "setTimer")
    /\ tasks["a"].resp = Success
    /\ tasks["a"].req.tabId = 1
    /\ StoreBut(store, 1) # EmptyStore
    /\ store # tasks["a"].pre.store
    /\ OPTIONS_KEY \in DOMAIN store
    /\ getInterval(store, 2) > 0
    /\ TimersOf(alarms, 2) # {}
    /\ TimersOf(tasks["a"].pre.alarms, 2) = TimersOf(alarms, 2)

\* C34: a failed import does not destroy state.  When importSettings has
\* passed validation and chrome.storage.local.clear or chrome.storage.local.set
\* rejects, the response is {success: false, error} and the store (Schedule
\* Entries, Options Record) and the live timers are those the import started
\* with.
C34_FailedImportKeepsState ==
    [][(/\ HandlerRejects("a")
        /\ tasks["a"].kind = "importSettings"
        /\ tasks["a"].pc \in {"im_clearall", "im_clear"})
       => /\ tasks'["a"].resp.success = FALSE
          /\ Has(tasks'["a"].resp, "error")
          /\ store' = tasks["a"].pre.store
          /\ alarms' = tasks["a"].pre.alarms]_vars

\* The store and the registry say the same of a tab: a timer named for it is
\* live exactly when its entry holds an interval > 0, and the period of the
\* timer is that interval.
Agree(st, al, t) ==
    /\ TimersOf(al, t) # {} <=> getInterval(st, t) > 0
    /\ \A a \in TimersOf(al, t) : a.periodInMinutes = getInterval(st, t)

\* C35: store and registry agree when quiescent.  With the handlers run one
\* after another and no call failing, in every state where no handler is in
\* flight a tabId has a live timer if and only if the store holds an entry
\* for it with interval > 0, and the timer's period is the stored interval.
C35_QuiescentAgreement ==
    Quiescent => \A t \in TabIds : Agree(store, alarms, t)

\* The fire handler in slot a has run its cleanup to the end and the
\* setTimer(tabId, n > 0) in slot b has completed.
CleanupAndSchedule ==
    /\ DoneTask("a", "onAlarm")
    /\ tasks["a"].reload.tried /\ ~tasks["a"].reload.ok
    /\ DoneTask("b", "setTimer")
    /\ tasks["b"].resp = Success

\* C36: failure cleanup racing a new schedule ends consistent.  After a fire
\* handler whose reload failed and a setTimer(tabId, n > 0) on the same tab
\* have both completed, in whatever order their steps ran, either the entry
\* with interval n and a timer of period n both exist or neither exists.
C36_CleanupRaceConsistent ==
    CleanupAndSchedule
    => LET t == tasks["b"].req.tabId
           n == tasks["b"].req.interval
       IN  \/ /\ getKey(t) \in DOMAIN store
              /\ getInterval(store, t) = n
              /\ TimersOf(alarms, t) # {}
              /\ \A a \in TimersOf(alarms, t) : a.periodInMinutes = n
           \/ /\ getKey(t) \notin DOMAIN store
              /\ TimersOf(alarms, t) = {}

\* C37: concurrent option updates are not lost.  After two saveOptions
\* requests that update disjoint fields have both completed, in whatever
\* order their steps ran, the Options Record carries the new value of each
\* request's field.
C37_NoLostOptionUpdate ==
    (/\ DoneTask("a", "saveOptions")
     /\ DoneTask("b", "saveOptions")
     /\ DOMAIN tasks["a"].data \cap DOMAIN tasks["b"].data = {})
    => /\ OPTIONS_KEY \in DOMAIN store
       /\ \A i \in Slots : \A f \in DOMAIN tasks[i].data :
             /\ Has(store[OPTIONS_KEY], f)
             /\ store[OPTIONS_KEY][f] = tasks[i].data[f]

\* The stores a request beside an import may observe: the store the import
\* started with, the imported document, and the document with schedule
\* entries pruned by the import's reconciliation.
Observable(i) ==
    {tasks[i].pre.store}
    \cup {[k \in ks |-> tasks[i].data[k]] :
             ks \in {x \in SUBSET DOMAIN tasks[i].data :
                        \A k \in DOMAIN tasks[i].data :
                            ~StartsWith(k, ALARM_NAME_PREFIX) => k \in x}}

\* C38: import is atomic to readers and writers.  A getTimer, getAllTimers,
\* getOptions or exportSettings handled while an importSettings is in flight
\* answers from the complete pre-import store or from the complete imported
\* store, never from an empty or partially replaced one; and a setTimer that
\* completes with success during the import has its entry in the store once
\* both have completed.
C38_ImportAtomic ==
    /\ DoneTask("b", "exportSettings")
       => tasks["b"].resp.data \in Observable("a")
    /\ DoneTask("b", "getOptions")
       => \E st \in Observable("a") : tasks["b"].resp.options = getOptions(st)
    /\ DoneTask("b", "getTimer")
       => \E st \in Observable("a") :
             tasks["b"].resp.interval = getInterval(st, tasks["b"].req.tabId)
    /\ tasks["b"].kind = "getAllTimers"
       => \E st \in Observable("a") :
             tasks["b"].entries = getAllIntervals(StorageGetAll(st))
    /\ (DoneTask("b", "setTimer") /\ DoneTask("a", "importSettings"))
       => getInterval(store, tasks["b"].req.tabId) = tasks["b"].req.interval

\* A pass of startup or update in slot a and, in slot b, a setTimer or an
\* onRemoved that ran while the pass was suspended, have both completed.
PassAndOther ==
    /\ tasks["a"].pc = "done"
    /\ tasks["a"].kind \in {"onStartup", "onInstalled"}
    /\ tasks["b"].pc = "done"
    /\ tasks["b"].kind \in {"setTimer", "onRemoved"}

\* C39: reconciliation does not act on a stale snapshot.  When a setTimer or
\* a tab close for tabId has completed while a reconciliation pass was
\* suspended between its reads and its step for tabId, then once both have
\* completed the timer of tabId is live if and only if the stored interval is
\* > 0, its period is the stored interval, and the entry a setTimer wrote
\* after the snapshot is still stored.
C39_NoStaleReconcile ==
    PassAndOther
    => LET t == tasks["b"].tabId
       IN  /\ Agree(store, alarms, t)
           /\ tasks["b"].kind = "setTimer"
              => /\ getKey(t) \in DOMAIN store
                 /\ store[getKey(t)] = [interval |-> tasks["b"].interval]

\* The tab ids whose entry the completed pass of slot i has deleted because
\* the tab was not among the open tabs it read.
Pruned(i) ==
    {t \in TabIds : /\ getKey(t) \in DOMAIN PassBase(i)
                    /\ getKey(t) \notin DOMAIN store
                    /\ t \notin tasks[i].openIds}

\* C40: pruning an orphan also silences it.  When a reconciliation pass has
\* completed, no timer is live for a tabId whose Schedule Entry the pass has
\* deleted because the tab is not open, whatever timers were live when the
\* pass started.
C40_PrunedIsSilenced ==
    \A i \in SeqSlots :
        (Reconciling(i) /\ tasks[i].pc = "done")
        => \A t \in Pruned(i) : TimersOf(alarms, t) = {}
====
